---- MODULE Spec2Model ----
(***************************************************************************)
(* Portfolio backtester: the time-series simulation engine of              *)
(* src/components/PortfolioBacktester.tsx.                                 *)
(*                                                                         *)
(* JavaScript numbers are modelled as exact rationals <<n, d>> in lowest   *)
(* terms (d > 0), with the three non-finite doubles NaN, +Infinity and     *)
(* -Infinity as <<0,0>>, <<1,0>> and <<-1,0>>.  Rounding of IEEE doubles   *)
(* and the sign of zero are not modelled.                                  *)
(* ISO date strings "YYYY-MM-DD" are modelled as triples <<y, m, d>>;      *)
(* string comparison of two ISO dates is the lexicographic order of the    *)
(* triples.                                                                *)
(***************************************************************************)
EXTENDS Integers, Sequences, FiniteSets, TLC

----------------------------------------------------------------------------
(* Numbers *)

NaN == <<0, 0>>
PosInf == <<1, 0>>
NegInf == <<-1, 0>>

Abs(x) == IF x < 0 THEN -x ELSE x

Sgn(x) == IF x > 0 THEN 1 ELSE IF x < 0 THEN -1 ELSE 0

RECURSIVE GCD(_, _)
GCD(a, b) == IF b = 0 THEN a ELSE GCD(b, a % b)

Norm(n, d) ==
  LET g == GCD(Abs(n), Abs(d))
      s == IF d < 0 THEN -1 ELSE 1
  IN  <<(s * n) \div g, (s * d) \div g>>

Rat(n) == <<n, 1>>
Zero == <<0, 1>>
Frac(n, d) == Norm(n, d)

IsNaN(x) == x = NaN
IsFinite(x) == x[2] # 0

Neg(a) == <<-a[1], a[2]>>

Add(a, b) ==
  IF IsNaN(a) \/ IsNaN(b) THEN NaN
  ELSE IF IsFinite(a) /\ IsFinite(b)
       THEN LET g == GCD(a[2], b[2])
            IN  Norm(a[1] * (b[2] \div g) + b[1] * (a[2] \div g), (a[2] \div g) * b[2])
  ELSE IF IsFinite(a) THEN b
  ELSE IF IsFinite(b) THEN a
  ELSE IF a = b THEN a ELSE NaN

Sub(a, b) == Add(a, Neg(b))

Mul(a, b) ==
  IF IsNaN(a) \/ IsNaN(b) THEN NaN
  ELSE IF IsFinite(a) /\ IsFinite(b)
       THEN LET g1 == GCD(Abs(a[1]), b[2])
                g2 == GCD(Abs(b[1]), a[2])
            IN  IF a[1] = 0 \/ b[1] = 0 THEN Zero
                ELSE <<(a[1] \div g1) * (b[1] \div g2), (a[2] \div g2) * (b[2] \div g1)>>
  ELSE IF a[1] = 0 \/ b[1] = 0 THEN NaN
  ELSE <<Sgn(a[1]) * Sgn(b[1]), 0>>

Div(a, b) ==
  IF IsNaN(a) \/ IsNaN(b) THEN NaN
  ELSE IF IsFinite(a) /\ IsFinite(b)
       THEN IF b[1] = 0
            THEN (IF a[1] = 0 THEN NaN ELSE <<Sgn(a[1]), 0>>)
            ELSE Mul(a, <<Sgn(b[1]) * b[2], Abs(b[1])>>)
  ELSE IF IsFinite(a) THEN Zero
  ELSE IF IsFinite(b) THEN <<a[1] * (IF b[1] < 0 THEN -1 ELSE 1), 0>>
  ELSE NaN

\* a > b on doubles: false when either side is NaN
Gt(a, b) ==
  IF IsNaN(a) \/ IsNaN(b) THEN FALSE
  ELSE IF IsFinite(a) /\ IsFinite(b)
       THEN LET g == GCD(a[2], b[2])
            IN  a[1] * (b[2] \div g) > b[1] * (a[2] \div g)
  ELSE IF a = b THEN FALSE
  ELSE a = PosInf \/ b = NegInf

Lt(a, b) == Gt(b, a)
Ge(a, b) == ~IsNaN(a) /\ ~IsNaN(b) /\ ~Gt(b, a)
Le(a, b) == Ge(b, a)

\* JavaScript truthiness of a number: neither 0 nor NaN
Truthy(x) == ~IsNaN(x) /\ x # Zero

MathAbs(x) == <<Abs(x[1]), x[2]>>
MathMax(a, b) == IF IsNaN(a) \/ IsNaN(b) THEN NaN ELSE IF Gt(b, a) THEN b ELSE a
MathMin(a, b) == IF IsNaN(a) \/ IsNaN(b) THEN NaN ELSE IF Lt(b, a) THEN b ELSE a

----------------------------------------------------------------------------
(* Dates *)

\* a <= b on ISO date strings
DateLE(a, b) ==
  \/ a[1] < b[1]
  \/ a[1] = b[1] /\ a[2] < b[2]
  \/ a[1] = b[1] /\ a[2] = b[2] /\ a[3] <= b[3]

\* new Date(s).getFullYear() and new Date(s).getMonth() (0-based)
getFullYear(date) == date[1]
getMonth(date) == date[2] - 1

----------------------------------------------------------------------------
(* Inputs of the portfolio simulator *)

\* The largest number of rows of the price table
MaxRows == 3

NoFx == ""
NoDate == <<0, 0, 0>>
FirstDate == <<2020, 1, 1>>

Leg(a, w, f) == [asset |-> a, weight |-> w, fx |-> f]

\* The allocations tried: empty, single leg with and without FX, two legs with
\* an FX leg, the same ticker in two legs, weight sums off 100 by 10, by
\* 0.008 (inside the tolerance) and by 0.012 (outside it)
Portfolios ==
  { <<>>,
    <<Leg("SPY", Rat(100), NoFx)>>,
    <<Leg("SPY", Rat(100), "USDPLN")>>,
    <<Leg("SPY", Rat(90), NoFx)>>,
    <<Leg("SPY", Rat(60), NoFx), Leg("BND", Rat(40), "USDPLN")>>,
    <<Leg("SPY", Rat(60), NoFx), Leg("SPY", Rat(40), "USDPLN")>>,
    <<Leg("SPY", Rat(60), NoFx), Leg("BND", Rat(50), NoFx)>>,
    <<Leg("SPY", Rat(60), NoFx), Leg("BND", Frac(40008, 1000), NoFx)>>,
    <<Leg("SPY", Rat(60), NoFx), Leg("BND", Frac(40012, 1000), NoFx)>> }

Freqs == {"monthly", "quarterly", "yearly"}

Capitals == {100}

\* The cells of a row: a ticker is a key of the row only when the sheet held a
\* positive number for it
RowKinds ==
  { ("SPY" :> 1) @@ ("BND" :> 1) @@ ("USDPLN" :> 4),
    ("SPY" :> 2) @@ ("BND" :> 1) @@ ("USDPLN" :> 4),
    ("SPY" :> 1) @@ ("USDPLN" :> 4),
    ("SPY" :> 1) @@ ("BND" :> 2),
    ("USDPLN" :> 4) }

\* Whole months between two consecutive rows (0: the next day of the same month)
Gaps == {0, 1, 11}

Restrict(f, S) == [x \in (DOMAIN f) \cap S |-> f[x]]

\* The columns an allocation reads; the other columns of the sheet are left out
Cols(p) == {p[j].asset : j \in DOMAIN p} \cup {p[j].fx : j \in DOMAIN p}

Kinds(p) == {Restrict(k, Cols(p)) : k \in RowKinds}

AddMonths(date, k) ==
  LET t == (date[2] - 1) + k
  IN  <<date[1] + (t \div 12), (t % 12) + 1, date[3]>>

NextDate(date, gap) ==
  IF gap = 0 THEN <<date[1], date[2], date[3] + 1>> ELSE AddMonths(date, gap)

\* The table with first row `first` and then one row per element <<gap, cells>>
RECURSIVE Table(_, _, _)
Table(first, rest, n) ==
  IF n = 0 THEN <<[date |-> FirstDate, cells |-> first]>>
  ELSE LET t == Table(first, rest, n - 1)
       IN  Append(t, [date |-> NextDate(t[n].date, rest[n][1]), cells |-> rest[n][2]])

Tables(p, n) ==
  IF n = 0 THEN {<<>>}
  ELSE {Table(first, rest, n - 1) :
          first \in Kinds(p), rest \in [1..(n - 1) -> Gaps \X Kinds(p)]}

\* The date ranges tried on a table: all of it, without its first row, without
\* its last row
Ranges(t) ==
  IF t = <<>> THEN {[start |-> NoDate, end |-> NoDate]}
  ELSE LET n == Len(t)
       IN  {[start |-> t[r[1]].date, end |-> t[r[2]].date] :
              r \in {<<1, n>>, <<2, n>>, <<1, n - 1>>} \cap ((1..n) \X (1..n))}

----------------------------------------------------------------------------
(* State *)

VARIABLES
  portfolio,          \* the allocation passed to calculatePortfolioReturns
  assetData,          \* the price table (data)
  selectedDateRange,  \* [start, end]
  startingCapital,
  rebalanceFreq,
  pc,                 \* "call", "loop", "done": position in calculatePortfolioReturns
  filteredData,       \* the rows of the table inside the date range
  assetShares,        \* ticker -> share quantity
  runningMax,
  lastRebalanceDate,
  i,                  \* loop index (0-based)
  returns,            \* the ReturnPoints pushed so far
  result              \* [null |-> TRUE] or [null |-> FALSE, returns |-> ...]

simVars ==
  <<portfolio, assetData, selectedDateRange, startingCapital, rebalanceFreq, pc,
    filteredData, assetShares, runningMax, lastRebalanceDate, i, returns, result>>

VARIABLES
  riskFreeRate,         \* annual risk-free rate passed to calculateTrendFollowingAnalysis
  commission,           \* commission per trade
  tpc,                  \* "call", "loop", "done": position in calculateTrendFollowingAnalysis
  monthlyPrices,        \* last valid price of each month
  ti,                   \* loop index into monthlyPrices (0-based)
  buyHoldValue,
  trendFollowingValue,
  previousSignal,       \* "BUY", "SELL" or "null"
  isInvested,
  firstPrice,           \* Null until the first eligible month
  chartData,
  signalChanges,
  trendResult

trendVars ==
  <<riskFreeRate, commission, tpc, monthlyPrices, ti, buyHoldValue, trendFollowingValue,
    previousSignal, isInvested, firstPrice, chartData, signalChanges, trendResult>>

VARIABLES
  curve,                \* the ReturnPoints passed to the functions that read a curve
  withdrawalPct,        \* annual withdrawal rate, in percent
  inflationPct,         \* annual inflation rate, in percent
  cpc,                  \* position in the sequence of calls that read the curve
  stats,                \* result of calculateStatistics
  monthlyReturns,       \* result of calculateMonthlyReturns
  wi,                   \* loop index of calculateWithdrawalReturns (0-based)
  withdrawalValue,
  lastWithdrawalDate,
  yearNumber,
  withdrawalResult,     \* the points pushed by calculateWithdrawalReturns
  details               \* result of getWithdrawalDetails

curveVars ==
  <<curve, withdrawalPct, inflationPct, cpc, stats, monthlyReturns, wi,
    withdrawalValue, lastWithdrawalDate, yearNumber, withdrawalResult, details>>

VARIABLES
  fpc,                  \* the function about to be called, or "done", or "idle"
  rateLog,              \* the signal log passed to calculateSuccessRate
  rateResult,           \* its result
  given,                \* the curve as it was handed to the functions that read it
  called                \* the functions that have read it since

VARIABLES
  portfolios,           \* the configured portfolios (component state)
  backtestResults,      \* the stored results of runBacktest, or Null
  assetDataLoaded       \* assetData !== null

VARIABLES
  assetLookup,          \* the lookup table: ticker, name, currency, fx
  rankRequest,          \* the ranking asked for: a year, or a trailing number of years
  ranked                \* the list returned by the ranking

rankVars == <<assetLookup, rankRequest, ranked>>

VARIABLES
  csvText,              \* the sheet handed to parseSheetData, as lines of cells
  parsed                \* what parseSheetData returned or that it threw

sheetVars == <<csvText, parsed>>

uiVars == <<portfolios, backtestResults, assetDataLoaded, rankVars, sheetVars>>

fnVars == <<fpc, rateLog, rateResult, given, called, uiVars>>

vars == <<simVars, trendVars, curveVars, fnVars>>

\* null where a number is expected
Null == <<>>

----------------------------------------------------------------------------
(* calculatePortfolioReturns *)

\* Number(row[ticker]): NaN when the row has no such key
Cell(row, ticker) ==
  IF ticker \in DOMAIN row.cells THEN Rat(row.cells[ticker]) ELSE NaN

getFxRate(row, fxTicker) ==
  IF fxTicker = NoFx THEN Rat(1)
  ELSE LET rate == Cell(row, fxTicker)
       IN  IF Truthy(rate) /\ Gt(rate, Zero) THEN rate ELSE Rat(1)

\* currentPrice * fxRate of one leg on one row
AdjustedPrice(row, leg) == Mul(Cell(row, leg.asset), getFxRate(row, leg.fx))

\* adjustedPrice && adjustedPrice > 0
ValidPrice(x) == Truthy(x) /\ Gt(x, Zero)

RECURSIVE SumWeights(_, _)
SumWeights(assets, n) ==
  IF n = 0 THEN Zero ELSE Add(SumWeights(assets, n - 1), assets[n].weight)

TotalWeight(assets) == SumWeights(assets, Len(assets))

Tolerance == Frac(1, 100)

\* Mutant: the weight check accepts every allocation
WeightsValid_Always(assets) == TRUE

WeightsValid(assets) == ~Gt(MathAbs(Sub(TotalWeight(assets), Rat(100))), Tolerance)

InRange(row, range) == DateLE(range.start, row.date) /\ DateLE(row.date, range.end)

\* Mutant: the end date is excluded from the slice
Filter_ExcludeEnd(data, range) ==
  SelectSeq(data, LAMBDA row : InRange(row, range) /\ row.date # range.end)

\* Mutant: the start date is excluded from the slice
Filter_ExcludeStart(data, range) ==
  SelectSeq(data, LAMBDA row : InRange(row, range) /\ row.date # range.start)

Filter(data, range) == SelectSeq(data, LAMBDA row : InRange(row, range))

\* Initial shares: the legs are visited in order, each writing the entry of its ticker
RECURSIVE InitialShares(_, _, _, _)
InitialShares(assets, row, capital, n) ==
  IF n = 0 THEN [a \in {} |-> Zero]
  ELSE LET prev == InitialShares(assets, row, capital, n - 1)
           leg == assets[n]
           adjustedPrice == AdjustedPrice(row, leg)
           shares == IF ValidPrice(adjustedPrice)
                     THEN Div(Mul(capital, Div(leg.weight, Rat(100))), adjustedPrice)
                     ELSE Zero
       IN  [a \in (DOMAIN prev) \cup {leg.asset} |->
              IF a = leg.asset THEN shares ELSE prev[a]]

\* Mutant: the year term of the month difference is forgotten
monthsSinceRebalance_NoYear(currentDate, last) ==
  getMonth(currentDate) - getMonth(last)

monthsSinceRebalance(currentDate, last) ==
  (getFullYear(currentDate) - getFullYear(last)) * 12
    + (getMonth(currentDate) - getMonth(last))

\* Mutant: every threshold is one month short
Threshold_OneShort(freq) ==
  IF freq = "monthly" THEN 0 ELSE IF freq = "quarterly" THEN 2 ELSE 11

Threshold(freq) ==
  IF freq = "monthly" THEN 1 ELSE IF freq = "quarterly" THEN 3 ELSE 12

\* Mutant: every date after the first is a rebalance date
shouldRebalance_Always(idx, freq, currentDate, last) == idx > 0

shouldRebalance(idx, freq, currentDate, last) ==
  /\ idx > 0
  /\ freq \in {"monthly", "quarterly", "yearly"}
  /\ monthsSinceRebalance(currentDate, last) >= Threshold(freq)

\* One leg's term of the portfolio value
LegValue(row, leg, shares) ==
  LET adjustedPrice == AdjustedPrice(row, leg)
  IN  IF ValidPrice(adjustedPrice) /\ Truthy(shares[leg.asset])
      THEN Mul(shares[leg.asset], adjustedPrice)
      ELSE Zero

RECURSIVE PortfolioValue(_, _, _, _)
PortfolioValue(assets, row, shares, n) ==
  IF n = 0 THEN Zero
  ELSE Add(PortfolioValue(assets, row, shares, n - 1), LegValue(row, assets[n], shares))

\* Mutant: the shares of a leg are reset whether or not it has a price
RECURSIVE Rebalance_NoPriceCheck(_, _, _, _, _)
Rebalance_NoPriceCheck(assets, row, shares, portfolioValue, n) ==
  IF n = 0 THEN shares
  ELSE LET prev == Rebalance_NoPriceCheck(assets, row, shares, portfolioValue, n - 1)
           leg == assets[n]
       IN  [prev EXCEPT ![leg.asset] =
              Div(Mul(portfolioValue, Div(leg.weight, Rat(100))), AdjustedPrice(row, leg))]

\* Mutant: the target allocation is taken from the starting capital
RECURSIVE Rebalance_FromCapital(_, _, _, _, _)
Rebalance_FromCapital(assets, row, shares, portfolioValue, n) ==
  IF n = 0 THEN shares
  ELSE LET prev == Rebalance_FromCapital(assets, row, shares, portfolioValue, n - 1)
           leg == assets[n]
           adjustedPrice == AdjustedPrice(row, leg)
       IN  IF ValidPrice(adjustedPrice)
           THEN [prev EXCEPT ![leg.asset] =
                   Div(Mul(Rat(startingCapital), Div(leg.weight, Rat(100))), adjustedPrice)]
           ELSE prev

\* The rebalancing loop over the legs, in order
RECURSIVE Rebalance(_, _, _, _, _)
Rebalance(assets, row, shares, portfolioValue, n) ==
  IF n = 0 THEN shares
  ELSE LET prev == Rebalance(assets, row, shares, portfolioValue, n - 1)
           leg == assets[n]
           adjustedPrice == AdjustedPrice(row, leg)
       IN  IF ValidPrice(adjustedPrice)
           THEN [prev EXCEPT ![leg.asset] =
                   Div(Mul(portfolioValue, Div(leg.weight, Rat(100))), adjustedPrice)]
           ELSE prev

\* Mutant: the running maximum is never raised
NewRunningMax_Stale(value, max) == max

\* if (portfolioValue > runningMax) runningMax = portfolioValue
NewRunningMax(value, max) == IF Gt(value, max) THEN value ELSE max

Drawdown(value, max) == Mul(Div(Sub(value, max), max), Rat(100))

NullResult == [null |-> TRUE, returns |-> <<>>]

\* Entry: validation, date filter, initial shares
Call ==
  /\ pc = "call"
  /\ LET filtered == Filter(assetData, selectedDateRange)
     IN  IF \/ Len(portfolio) = 0
            \/ Len(assetData) = 0
            \/ ~WeightsValid(portfolio)
            \/ Len(filtered) < 2
         THEN /\ pc' = "done"
              /\ result' = NullResult
              /\ UNCHANGED <<filteredData, assetShares, runningMax, lastRebalanceDate>>
         ELSE /\ pc' = "loop"
              /\ filteredData' = filtered
              /\ assetShares' =
                   InitialShares(portfolio, filtered[1], Rat(startingCapital), Len(portfolio))
              /\ runningMax' = Rat(startingCapital)
              /\ lastRebalanceDate' = filtered[1].date
              /\ UNCHANGED result
  /\ UNCHANGED <<portfolio, assetData, selectedDateRange, startingCapital,
                 rebalanceFreq, i, returns>>
  /\ UNCHANGED trendVars
  /\ UNCHANGED curveVars
  /\ UNCHANGED fnVars

\* One iteration of the loop over filteredData
ProcessRow ==
  /\ pc = "loop"
  /\ i < Len(filteredData)
  /\ LET row == filteredData[i + 1]
         currentDate == row.date
         rebalance == shouldRebalance(i, rebalanceFreq, currentDate, lastRebalanceDate)
         portfolioValue == PortfolioValue(portfolio, row, assetShares, Len(portfolio))
         newMax == NewRunningMax(portfolioValue, runningMax)
     IN  /\ IF rebalance /\ Gt(portfolioValue, Zero)
            THEN /\ assetShares' =
                      Rebalance(portfolio, row, assetShares, portfolioValue, Len(portfolio))
                 /\ lastRebalanceDate' = currentDate
            ELSE UNCHANGED <<assetShares, lastRebalanceDate>>
         /\ runningMax' = newMax
         /\ returns' = Append(returns, [date |-> row.date,
                                        value |-> portfolioValue,
                                        drawdown |-> Drawdown(portfolioValue, newMax)])
  /\ i' = i + 1
  /\ UNCHANGED <<portfolio, assetData, selectedDateRange, startingCapital,
                 rebalanceFreq, pc, filteredData, result>>
  /\ UNCHANGED trendVars
  /\ UNCHANGED curveVars
  /\ UNCHANGED fnVars

\* return returns
Return ==
  /\ pc = "loop"
  /\ i = Len(filteredData)
  /\ pc' = "done"
  /\ result' = [null |-> FALSE, returns |-> returns]
  /\ UNCHANGED <<portfolio, assetData, selectedDateRange, startingCapital,
                 rebalanceFreq, filteredData, assetShares, runningMax,
                 lastRebalanceDate, i, returns>>
  /\ UNCHANGED trendVars
  /\ UNCHANGED curveVars
  /\ UNCHANGED fnVars

NoRate == [null |-> TRUE, rate |-> Zero, successful |-> 0, total |-> 0]

TrendNull ==
  [null |-> TRUE, chartData |-> <<>>, drawdownData |-> <<>>, signalChanges |-> <<>>,
   successRate |-> NoRate]

\* The locals of calculatePortfolioReturns before it is called
SimIdle(at) ==
  /\ pc = at
  /\ filteredData = <<>>
  /\ assetShares = [a \in {} |-> Zero]
  /\ runningMax = Zero
  /\ lastRebalanceDate = NoDate
  /\ i = 0
  /\ returns = <<>>
  /\ result = NullResult

\* The locals of calculateTrendFollowingAnalysis before it is called
TrendIdle(at) ==
  /\ tpc = at
  /\ monthlyPrices = <<>>
  /\ ti = 0
  /\ buyHoldValue = Rat(1)
  /\ trendFollowingValue = Rat(1)
  /\ previousSignal = "null"
  /\ isInvested = FALSE
  /\ firstPrice = Null
  /\ chartData = <<>>
  /\ signalChanges = <<>>
  /\ trendResult = TrendNull

\* A portfolio name: a text, or the parts asset + rounded weight that
\* generatePortfolioName joins with '-'
NameText(text) == [text |-> text, parts |-> <<>>]

\* useState<Portfolio[]>([...]): one empty portfolio
DefaultPortfolios ==
  <<[id |-> 1, name |-> NameText("Portfolio 1"), assets |-> <<>>, color |-> "#3b82f6",
     nameManuallyEdited |-> FALSE]>>

\* The component state the handlers work on, as the component is mounted
UiIdle ==
  /\ portfolios = DefaultPortfolios
  /\ backtestResults = Null
  /\ assetDataLoaded = TRUE
  /\ assetLookup = <<>>
  /\ rankRequest = [mode |-> "year", n |-> 0]
  /\ ranked = <<>>
  /\ csvText = <<>>
  /\ parsed = [error |-> "", data |-> <<>>, assets |-> <<>>]

\* The functions that are called on their own, before any call
FnIdle ==
  /\ UiIdle
  /\ fpc = "idle"
  /\ rateLog = <<>>
  /\ rateResult = NoRate
  /\ given = <<>>
  /\ called = {}

\* Number.prototype.toFixed(2): the decimal string with two digits after the point,
\* as its sign and its number of hundredths; halves round away from zero, and a
\* negative number that rounds to zero keeps its sign ("-0.00")
toFixed2(x) ==
  IF IsNaN(x) THEN [kind |-> "NaN", neg |-> FALSE, cents |-> 0]
  ELSE IF ~IsFinite(x) THEN [kind |-> "Infinity", neg |-> x = NegInf, cents |-> 0]
  ELSE [kind |-> "number",
        neg |-> x[1] < 0,
        cents |-> (Abs(x[1]) * 200 + x[2]) \div (2 * x[2])]

NullStats ==
  [null |-> TRUE, totalReturn |-> toFixed2(Zero), maxDrawdown |-> toFixed2(Zero),
   currentDrawdown |-> toFixed2(Zero), endingValue |-> toFixed2(Zero)]

\* Math.min(...returns.map(r => r.drawdown)) over the first n points
RECURSIVE MinDrawdown(_, _)
MinDrawdown(points, n) ==
  IF n = 0 THEN PosInf ELSE MathMin(MinDrawdown(points, n - 1), points[n].drawdown)

maxDrawdownOf_Trough(points) ==
  LET last == points[Len(points)].value
      low == CHOOSE v \in {points[k].value : k \in 1..Len(points)} :
               \A k \in 1..Len(points) : Le(v, points[k].value)
  IN  Mul(Div(Sub(low, last), last), Rat(100))

maxDrawdownOf(points) == MinDrawdown(points, Len(points))

calculateStatistics_OnePointEnough(r) ==
  IF r.null \/ Len(r.returns) < 1 THEN NullStats
  ELSE [null |-> FALSE,
        totalReturn |-> toFixed2(Zero),
        maxDrawdown |-> toFixed2(maxDrawdownOf(r.returns)),
        currentDrawdown |-> toFixed2(r.returns[Len(r.returns)].drawdown),
        endingValue |-> toFixed2(r.returns[Len(r.returns)].value)]

\* calculateStatistics; r is null or the ReturnPoints.  cagr, volatility and
\* sharpeRatio, which take roots, are not part of the model
calculateStatistics(r) ==
  IF r.null \/ Len(r.returns) < 2 THEN NullStats
  ELSE LET startValue == r.returns[1].value
           endValue == r.returns[Len(r.returns)].value
           totalReturn == Mul(Div(Sub(endValue, startValue), startValue), Rat(100))
           maxDrawdown == maxDrawdownOf(r.returns)
           currentDrawdown == r.returns[Len(r.returns)].drawdown
       IN  [null |-> FALSE,
            totalReturn |-> toFixed2(totalReturn),
            maxDrawdown |-> toFixed2(maxDrawdown),
            currentDrawdown |-> toFixed2(currentDrawdown),
            endingValue |-> toFixed2(endValue)]

\* The variables of the functions that read a curve, before they are called
CurveIdle(at) ==
  /\ cpc = at
  /\ stats = NullStats
  /\ monthlyReturns = <<>>
  /\ wi = 0
  /\ withdrawalValue = Zero
  /\ lastWithdrawalDate = NoDate
  /\ yearNumber = 0
  /\ withdrawalResult = <<>>
  /\ details = <<>>

\* runBacktest: const stats = calculateStatistics(returns, portfolio)
Statistics ==
  /\ pc = "done"
  /\ cpc = "idle"
  /\ stats' = calculateStatistics(result)
  /\ cpc' = "done"
  /\ UNCHANGED <<curve, withdrawalPct, inflationPct, monthlyReturns, wi, withdrawalValue,
                 lastWithdrawalDate, yearNumber, withdrawalResult, details>>
  /\ UNCHANGED simVars
  /\ UNCHANGED trendVars
  /\ UNCHANGED fnVars

SimInit ==
  /\ portfolio \in Portfolios
  /\ rebalanceFreq \in Freqs
  /\ startingCapital \in Capitals
  /\ \E n \in 0..MaxRows :
       /\ TotalWeight(portfolio) = Rat(100) \/ n <= 2
       /\ assetData \in Tables(portfolio, n)
  /\ selectedDateRange \in Ranges(assetData)
  /\ SimIdle("call")
  /\ riskFreeRate = Zero
  /\ commission = Zero
  /\ TrendIdle("idle")
  /\ curve = <<>>
  /\ withdrawalPct = Zero
  /\ inflationPct = Zero
  /\ CurveIdle("idle")
  /\ FnIdle

SimNext == Call \/ ProcessRow \/ Return \/ Statistics

SimSpec == SimInit /\ [][SimNext]_vars

----------------------------------------------------------------------------
(* Inputs of the trend-following simulator *)

\* The largest number of rows that follow the nine warm-up months of the table
MaxTail == 4

Ticker == "SPY"

RECURSIVE Pow(_, _)
Pow(x, n) == IF n = 0 THEN Rat(1) ELSE Mul(x, Pow(x, n - 1))

\* The monthly growth factors whose twelfth power is tried as 1 + riskFreeRate
MonthlyFactors == {Rat(1), Frac(3, 2)}

\* The annual rates: 0, and the rate whose monthly equivalent is 1/2 (a rate with
\* a rational twelfth root, so that the monthly rate is exact)
RiskFreeRates == {Sub(Pow(g, 12), Rat(1)) : g \in MonthlyFactors}

\* The commission per trade: none, or a tenth of the value
Commissions == {Zero, Frac(1, 10)}

\* The prices of the nine warm-up months: flat, or rising by 1 a month
Prefixes == {[k \in 1..9 |-> 2], [k \in 1..9 |-> k]}

\* A row after the warm-up: <<gap in months, move of the price>>; the move
\* "none" leaves the ticker out of the row
TailSteps == {<<1, "up">>, <<1, "flat">>, <<1, "down">>, <<0, "up">>, <<1, "none">>}

Moved(price, move) ==
  CASE move = "up" -> price + 1
    [] move = "down" -> IF price > 1 THEN price - 1 ELSE 1
    [] OTHER -> price

TrendCells(price, move) ==
  IF move = "none" THEN [a \in {} |-> 0] ELSE (Ticker :> Moved(price, move))

RECURSIVE PrefixTable(_, _)
PrefixTable(prefix, n) ==
  IF n = 0 THEN <<>>
  ELSE Append(PrefixTable(prefix, n - 1),
              [date |-> AddMonths(FirstDate, n - 1), cells |-> (Ticker :> prefix[n])])

\* <<table, last price>> after n rows of the tail
RECURSIVE TailTable(_, _, _)
TailTable(prefix, tail, n) ==
  IF n = 0 THEN <<PrefixTable(prefix, 9), prefix[9]>>
  ELSE LET prev == TailTable(prefix, tail, n - 1)
           t == prev[1]
       IN  <<Append(t, [date |-> NextDate(t[Len(t)].date, tail[n][1]),
                        cells |-> TrendCells(prev[2], tail[n][2])]),
             Moved(prev[2], tail[n][2])>>

TrendTables(n) ==
  {TailTable(prefix, tail, n)[1] : prefix \in Prefixes, tail \in [1..n -> TailSteps]}

----------------------------------------------------------------------------
(* calculateTrendFollowingAnalysis *)

\* The last valid price of each month: <<monthlyPrices, lastValidRow>> after n rows,
\* lastValidRow being <<>> for null
RECURSIVE GroupByMonth(_, _, _)
GroupByMonth(rows, ticker, n) ==
  IF n = 0 THEN <<<<>>, <<>>>>
  ELSE LET prev == GroupByMonth(rows, ticker, n - 1)
           row == rows[n]
           price == Cell(row, ticker)
           last == prev[2]
       IN  IF ~Truthy(price) \/ ~Gt(price, Zero) THEN prev
           ELSE LET newMonth ==
                      /\ last # <<>>
                      /\ \/ getMonth(row.date) # getMonth(last[1].date)
                         \/ getFullYear(row.date) # getFullYear(last[1].date)
                IN  <<IF newMonth THEN Append(prev[1], last[1]) ELSE prev[1],
                      <<[date |-> row.date, price |-> price]>>>>

MonthlyPrices(rows, ticker) ==
  LET g == GroupByMonth(rows, ticker, Len(rows))
  IN  IF g[2] # <<>> THEN Append(g[1], g[2][1]) ELSE g[1]

\* Math.pow(1 + riskFreeRate, 1 / 12) - 1, for the rates whose root is rational
monthlyRiskFreeRate(rate) ==
  Sub(CHOOSE g \in MonthlyFactors : Pow(g, 12) = Add(Rat(1), rate), Rat(1))

\* smaSum over the ten months ending at index idx (0-based)
RECURSIVE SmaSum(_, _, _)
SmaSum(monthly, idx, n) ==
  IF n = 0 THEN Zero
  ELSE Add(SmaSum(monthly, idx, n - 1), monthly[idx + 1 - 10 + n].price)

Sma10(monthly, idx) == Div(SmaSum(monthly, idx, 10), Rat(10))

Signal_AtLeast(price, sma10) == IF Ge(price, sma10) THEN "BUY" ELSE "SELL"

\* currentData.price > sma10 ? 'BUY' : 'SELL'
Signal(price, sma10) == IF Gt(price, sma10) THEN "BUY" ELSE "SELL"

FirstPoint_Never(idx) == FALSE

\* if (i === 9)
FirstPoint(idx) == idx = 9

Position_NewSignal(invested, signal) == signal = "BUY"

Position_Cash(invested, signal) == FALSE

\* if (isInvested): the position held during the month
Position(invested, signal) == invested

Charged_Free(value, rate) == value

\* trendFollowingValue * (1 - commission)
Charged(value, rate) == Mul(value, Sub(Rat(1), rate))

\* if (value > peak) peak = value
NewPeak(value, peak) == IF Gt(value, peak) THEN value ELSE peak

\* <<drawdown points, buyHoldPeak, trendFollowingPeak>> after n chart points
RECURSIVE TrendDrawdownsUpTo(_, _)
TrendDrawdownsUpTo(points, n) ==
  IF n = 0 THEN <<<<>>, Zero, Zero>>
  ELSE LET prev == TrendDrawdownsUpTo(points, n - 1)
           point == points[n]
           buyHoldPeak == NewPeak(point.buyHoldValue, prev[2])
           trendFollowingPeak == NewPeak(point.trendFollowingValue, prev[3])
       IN  <<Append(prev[1],
                    [date |-> point.date,
                     buyHoldDrawdown |-> Drawdown(point.buyHoldValue, buyHoldPeak),
                     trendFollowingDrawdown |->
                       Drawdown(point.trendFollowingValue, trendFollowingPeak)]),
             buyHoldPeak, trendFollowingPeak>>

calculateTrendDrawdowns(points) == TrendDrawdownsUpTo(points, Len(points))[1]

\* <<successful, total, lastSellPrice>> after n signal changes (Null: no open sell)
Cheaper_OrEqual(price, lastSellPrice) == Le(price, lastSellPrice)

\* change.price < lastSellPrice
Cheaper(price, lastSellPrice) == Lt(price, lastSellPrice)

RECURSIVE RoundTrips(_, _)
RoundTrips(changes, n) ==
  IF n = 0 THEN <<0, 0, Null>>
  ELSE LET prev == RoundTrips(changes, n - 1)
           change == changes[n]
       IN  IF change.newSignal = "SELL" THEN <<prev[1], prev[2], change.price>>
           ELSE IF change.newSignal = "BUY" /\ prev[3] # Null
                THEN <<prev[1] + (IF Cheaper(change.price, prev[3]) THEN 1 ELSE 0),
                       prev[2] + 1, Null>>
           ELSE prev

calculateSuccessRate(changes) ==
  IF Len(changes) < 2 THEN NoRate
  ELSE LET r == RoundTrips(changes, Len(changes))
       IN  IF r[2] = 0 THEN NoRate
           ELSE [null |-> FALSE,
                 rate |-> Mul(Frac(r[1], r[2]), Rat(100)),
                 successful |-> r[1],
                 total |-> r[2]]

\* Entry: date filter, monthly grouping, the two length checks
TrendCall ==
  /\ tpc = "call"
  /\ LET filtered == Filter(assetData, selectedDateRange)
         monthly == MonthlyPrices(filtered, Ticker)
     IN  IF Len(assetData) = 0 \/ Len(filtered) < 12 \/ Len(monthly) < 10
         THEN /\ tpc' = "done"
              /\ trendResult' = TrendNull
              /\ UNCHANGED <<monthlyPrices, ti>>
         ELSE /\ tpc' = "loop"
              /\ monthlyPrices' = monthly
              /\ ti' = 9
              /\ UNCHANGED trendResult
  /\ UNCHANGED <<riskFreeRate, commission, buyHoldValue, trendFollowingValue,
                 previousSignal, isInvested, firstPrice, chartData, signalChanges>>
  /\ UNCHANGED simVars
  /\ UNCHANGED curveVars
  /\ UNCHANGED fnVars

\* One iteration of the loop over monthlyPrices
TrendMonth ==
  /\ tpc = "loop"
  /\ ti < Len(monthlyPrices)
  /\ LET currentData == monthlyPrices[ti + 1]
         previousData == monthlyPrices[ti]
         sma10 == Sma10(monthlyPrices, ti)
         first == IF firstPrice = Null THEN currentData.price ELSE firstPrice
         signal == Signal(currentData.price, sma10)
         monthlyReturn ==
           Div(Sub(currentData.price, previousData.price), previousData.price)
         buyHold == Mul(buyHoldValue, Add(Rat(1), monthlyReturn))
         earned == IF Position(isInvested, signal)
                   THEN Mul(trendFollowingValue, Add(Rat(1), monthlyReturn))
                   ELSE Mul(trendFollowingValue,
                            Add(Rat(1), monthlyRiskFreeRate(riskFreeRate)))
     IN  /\ firstPrice' = first
         /\ IF FirstPoint(ti)
            THEN /\ isInvested' = (signal = "BUY")
                 /\ previousSignal' = signal
                 /\ signalChanges' =
                      Append(signalChanges,
                             [date |-> currentData.date, newSignal |-> signal,
                              price |-> currentData.price, value |-> Rat(1)])
                 /\ UNCHANGED <<buyHoldValue, trendFollowingValue>>
            ELSE /\ buyHoldValue' = buyHold
                 /\ IF signal # previousSignal
                    THEN /\ trendFollowingValue' = Charged(earned, commission)
                         /\ signalChanges' =
                              Append(signalChanges,
                                     [date |-> currentData.date, newSignal |-> signal,
                                      price |-> currentData.price, value |-> buyHold])
                         /\ isInvested' = (signal = "BUY")
                         /\ previousSignal' = signal
                    ELSE /\ trendFollowingValue' = earned
                         /\ UNCHANGED <<signalChanges, isInvested, previousSignal>>
         /\ chartData' =
              Append(chartData,
                     [date |-> currentData.date,
                      price |-> currentData.price,
                      buyHoldValue |-> buyHoldValue',
                      trendFollowingValue |-> trendFollowingValue',
                      sma10 |-> Div(sma10, first),
                      signal |-> signal])
  /\ ti' = ti + 1
  /\ UNCHANGED <<riskFreeRate, commission, tpc, monthlyPrices, trendResult>>
  /\ UNCHANGED simVars
  /\ UNCHANGED curveVars
  /\ UNCHANGED fnVars

\* After the loop: drawdowns and success rate (buyHoldStats and
\* trendFollowingStats, which take roots, are not part of the model)
TrendReturn ==
  /\ tpc = "loop"
  /\ ti = Len(monthlyPrices)
  /\ tpc' = "done"
  /\ trendResult' =
       IF Len(chartData) = 0 THEN TrendNull
       ELSE [null |-> FALSE,
             chartData |-> chartData,
             drawdownData |-> calculateTrendDrawdowns(chartData),
             signalChanges |-> signalChanges,
             successRate |-> calculateSuccessRate(signalChanges)]
  /\ UNCHANGED <<riskFreeRate, commission, monthlyPrices, ti, buyHoldValue,
                 trendFollowingValue, previousSignal, isInvested, firstPrice,
                 chartData, signalChanges>>
  /\ UNCHANGED simVars
  /\ UNCHANGED curveVars
  /\ UNCHANGED fnVars

TrendInit ==
  /\ \E n \in 0..MaxTail : assetData \in TrendTables(n)
  /\ selectedDateRange =
       [start |-> assetData[1].date, end |-> assetData[Len(assetData)].date]
  /\ riskFreeRate \in RiskFreeRates
  /\ commission \in Commissions
  /\ TrendIdle("call")
  /\ portfolio = <<>>
  /\ rebalanceFreq = "yearly"
  /\ startingCapital \in Capitals
  /\ SimIdle("idle")
  /\ curve = <<>>
  /\ withdrawalPct = Zero
  /\ inflationPct = Zero
  /\ CurveIdle("idle")
  /\ FnIdle

TrendNext == TrendCall \/ TrendMonth \/ TrendReturn

TrendSpec == TrendInit /\ [][TrendNext]_vars

----------------------------------------------------------------------------
(* Inputs of the functions that read an equity curve *)

\* The largest number of points of a drawn curve
MaxPoints == 4

\* The values of the points; 0 is the value of a date on which no leg has a price
CurveValues == {0, 100, 200}

\* Whole months between two consecutive points (0: the next day of the same month)
CurveGaps == {0, 1, 11, 12}

WithdrawalRates == {Zero, Rat(4)}

InflationRates == {Zero, Rat(100)}

\* The ReturnPoints with the given values, gaps[k] months after the point before;
\* the drawdowns are those calculatePortfolioReturns gives the values:
\* <<points, runningMax>>
RECURSIVE CurveOf(_, _, _, _)
CurveOf(values, gaps, capital, n) ==
  IF n = 0 THEN <<<<>>, Rat(capital)>>
  ELSE LET prev == CurveOf(values, gaps, capital, n - 1)
           date == IF n = 1 THEN FirstDate
                   ELSE NextDate(prev[1][n - 1].date, gaps[n - 1])
           max == NewRunningMax(Rat(values[n]), prev[2])
       IN  <<Append(prev[1], [date |-> date,
                              value |-> Rat(values[n]),
                              drawdown |-> Drawdown(Rat(values[n]), max)]),
             max>>

Curves(capital, n) ==
  IF n = 0 THEN {<<>>}
  ELSE {CurveOf(values, gaps, capital, n)[1] :
          values \in [1..n -> CurveValues], gaps \in [1..(n - 1) -> CurveGaps]}

----------------------------------------------------------------------------
(* calculateMonthlyReturns *)

\* The years of the points, as Object.keys(monthlyData).sort() lists them
RECURSIVE SortedSeq(_)
SortedSeq(S) ==
  IF S = {} THEN <<>>
  ELSE LET least == CHOOSE x \in S : \A y \in S : x <= y
       IN  <<least>> \o SortedSeq(S \ {least})

YearsOf(points) == SortedSeq({getFullYear(points[k].date) : k \in DOMAIN points})

\* monthlyData[year] after the first n points: monthly[month] is Null or the
\* endValue of the month (the last value seen in it); yearStart is set while it
\* is falsy; yearEnd is the last value seen in the year
RECURSIVE MonthlyData(_, _, _)
MonthlyData(points, year, n) ==
  IF n = 0
  THEN [monthly |-> [m \in 0..11 |-> Null], yearStart |-> Null, yearEnd |-> Null]
  ELSE LET prev == MonthlyData(points, year, n - 1)
           point == points[n]
       IN  IF getFullYear(point.date) # year THEN prev
           ELSE [monthly |-> [prev.monthly EXCEPT ![getMonth(point.date)] = point.value],
                 yearStart |-> IF prev.yearStart = Null \/ ~Truthy(prev.yearStart)
                               THEN point.value ELSE prev.yearStart,
                 yearEnd |-> point.value]

\* The end value of the nearest populated month before `month` in the year, or
\* prevYearEnd when there is none
StartValue(monthly, month, prevYearEnd) ==
  LET before == {m \in 0..11 : m < month /\ monthly[m] # Null}
  IN  IF before = {} THEN prevYearEnd
      ELSE monthly[CHOOSE m \in before : \A k \in before : k <= m]

\* startValue && startValue > 0, startValue being null or a number
PositiveStart(x) == x # Null /\ Truthy(x) /\ Gt(x, Zero)

ReturnPct(endValue, startValue) ==
  Mul(Div(Sub(endValue, startValue), startValue), Rat(100))

MonthlyReturnsOfYear(yearData, prevYearEnd) ==
  [month \in 0..11 |->
     IF yearData.monthly[month] = Null THEN Null
     ELSE LET startValue == StartValue(yearData.monthly, month, prevYearEnd)
          IN  IF PositiveStart(startValue)
              THEN ReturnPct(yearData.monthly[month], startValue)
              ELSE Null]

fyReturn_FromFirstClose(yearData, prevYearEnd) ==
  LET populated == {m \in 0..11 : yearData.monthly[m] # Null}
      first == yearData.monthly[CHOOSE m \in populated : \A k \in populated : m <= k]
      fyStartValue == IF prevYearEnd # Null THEN prevYearEnd ELSE first
  IN  IF PositiveStart(fyStartValue) /\ Truthy(yearData.yearEnd)
      THEN ReturnPct(yearData.yearEnd, fyStartValue)
      ELSE Zero

\* prevYearEnd is Null for the first year (yearIdx = 0)
fyReturn(yearData, prevYearEnd) ==
  LET fyStartValue == IF prevYearEnd # Null THEN prevYearEnd ELSE yearData.yearStart
  IN  IF PositiveStart(fyStartValue) /\ Truthy(yearData.yearEnd)
      THEN ReturnPct(yearData.yearEnd, fyStartValue)
      ELSE Zero

calculateMonthlyReturns(points) ==
  LET years == YearsOf(points)
      data(idx) == MonthlyData(points, years[idx], Len(points))
      prevEnd(idx) == IF idx > 1 THEN data(idx - 1).yearEnd ELSE Null
  IN  [idx \in 1..Len(years) |->
         [year |-> years[idx],
          monthly |-> MonthlyReturnsOfYear(data(idx), prevEnd(idx)),
          fy |-> fyReturn(data(idx), prevEnd(idx))]]

----------------------------------------------------------------------------
(* calculateWithdrawalReturns and getWithdrawalDetails *)

\* (currentDate.getFullYear() - last.getFullYear()) * 12
\*   + (currentDate.getMonth() - last.getMonth())
monthsSinceLast(currentDate, last) ==
  (getFullYear(currentDate) - getFullYear(last)) * 12
    + (getMonth(currentDate) - getMonth(last))

\* if (monthsSinceLast >= 12)
WithdrawalDue(currentDate, last) == monthsSinceLast(currentDate, last) >= 12

effectiveRate_NoCompounding(pct, inflation, year) == pct

\* withdrawalPct * Math.pow(1 + inflationPct / 100, yearNumber)
effectiveRate(pct, inflation, year) ==
  Mul(pct, Pow(Add(Rat(1), Div(inflation, Rat(100))), year))

AfterWithdrawal_AsFraction(value, rate) == Mul(value, Sub(Rat(1), rate))

\* value * (1 - effectiveRate / 100)
AfterWithdrawal(value, rate) == Mul(value, Sub(Rat(1), Div(rate, Rat(100))))

dailyRatio_FromFirst(points, idx) == Div(points[idx + 1].value, points[1].value)

\* returns[i].value / returns[i - 1].value, i 0-based
dailyRatio(points, idx) == Div(points[idx + 1].value, points[idx].value)

\* The locals of getWithdrawalDetails after the points of index 1..n (0-based)
RECURSIVE DetailsUpTo(_, _, _, _)
DetailsUpTo(points, pct, inflation, n) ==
  IF n = 0
  THEN [details |-> <<>>,
        portfolioValue |-> points[1].value,
        lastWithdrawalDate |-> points[1].date,
        yearNumber |-> 0,
        yearStartValue |-> points[1].value,
        yearStartOriginal |-> points[1].value]
  ELSE LET prev == DetailsUpTo(points, pct, inflation, n - 1)
           grown == Mul(prev.portfolioValue, dailyRatio(points, n))
           currentDate == points[n + 1].date
           originalValueNow == points[n + 1].value
           rate == effectiveRate(pct, inflation, prev.yearNumber)
           left == AfterWithdrawal(grown, rate)
       IN  IF WithdrawalDue(currentDate, prev.lastWithdrawalDate)
           THEN [details |->
                   Append(prev.details,
                          [year |-> prev.yearNumber + 1,
                           startingValue |-> prev.yearStartValue,
                           returnPct |-> ReturnPct(originalValueNow, prev.yearStartOriginal),
                           preWithdrawalValue |-> grown,
                           effectiveRate |-> rate,
                           withdrawalAmount |-> Mul(grown, Div(rate, Rat(100))),
                           endValue |-> left]),
                 portfolioValue |-> left,
                 lastWithdrawalDate |-> currentDate,
                 yearNumber |-> prev.yearNumber + 1,
                 yearStartValue |-> left,
                 yearStartOriginal |-> originalValueNow]
           ELSE [prev EXCEPT !.portfolioValue = grown]

getWithdrawalDetails_FlatRate(points, pct, inflation) ==
  IF Len(points) < 2 THEN <<>>
  ELSE DetailsUpTo(points, pct, Zero, Len(points) - 1).details

getWithdrawalDetails(points, pct, inflation) ==
  IF Len(points) < 2 THEN <<>>
  ELSE DetailsUpTo(points, pct, inflation, Len(points) - 1).details

----------------------------------------------------------------------------
(* The calls that read a curve *)

CurveStatistics ==
  /\ cpc = "stats"
  /\ stats' = calculateStatistics([null |-> FALSE, returns |-> curve])
  /\ cpc' = "monthly"
  /\ UNCHANGED <<curve, withdrawalPct, inflationPct, monthlyReturns, wi, withdrawalValue,
                 lastWithdrawalDate, yearNumber, withdrawalResult, details>>
  /\ UNCHANGED <<simVars, trendVars>>
  /\ UNCHANGED fnVars

MonthlyReturns ==
  /\ cpc = "monthly"
  /\ monthlyReturns' = calculateMonthlyReturns(curve)
  /\ cpc' = "withdrawal"
  /\ UNCHANGED <<curve, withdrawalPct, inflationPct, stats, wi, withdrawalValue,
                 lastWithdrawalDate, yearNumber, withdrawalResult, details>>
  /\ UNCHANGED <<simVars, trendVars>>
  /\ UNCHANGED fnVars

\* calculateWithdrawalReturns up to its loop
WithdrawalCall ==
  /\ cpc = "withdrawal"
  /\ IF Len(curve) < 2
     THEN /\ cpc' = "details"
          /\ withdrawalResult' = <<>>
          /\ UNCHANGED <<wi, withdrawalValue, lastWithdrawalDate, yearNumber>>
     ELSE /\ cpc' = "loop"
          /\ withdrawalValue' = curve[1].value
          /\ withdrawalResult' = <<[date |-> curve[1].date, value |-> curve[1].value]>>
          /\ lastWithdrawalDate' = curve[1].date
          /\ yearNumber' = 0
          /\ wi' = 1
  /\ UNCHANGED <<curve, withdrawalPct, inflationPct, stats, monthlyReturns, details>>
  /\ UNCHANGED <<simVars, trendVars>>
  /\ UNCHANGED fnVars

\* One iteration of the loop of calculateWithdrawalReturns
WithdrawalStep ==
  /\ cpc = "loop"
  /\ wi < Len(curve)
  /\ LET grown == Mul(withdrawalValue, dailyRatio(curve, wi))
         currentDate == curve[wi + 1].date
         rate == effectiveRate(withdrawalPct, inflationPct, yearNumber)
     IN  /\ IF WithdrawalDue(currentDate, lastWithdrawalDate)
            THEN /\ withdrawalValue' = AfterWithdrawal(grown, rate)
                 /\ lastWithdrawalDate' = currentDate
                 /\ yearNumber' = yearNumber + 1
            ELSE /\ withdrawalValue' = grown
                 /\ UNCHANGED <<lastWithdrawalDate, yearNumber>>
         /\ withdrawalResult' =
              Append(withdrawalResult, [date |-> currentDate, value |-> withdrawalValue'])
  /\ wi' = wi + 1
  /\ UNCHANGED <<curve, withdrawalPct, inflationPct, cpc, stats, monthlyReturns, details>>
  /\ UNCHANGED <<simVars, trendVars>>
  /\ UNCHANGED fnVars

\* return result
WithdrawalReturn ==
  /\ cpc = "loop"
  /\ wi = Len(curve)
  /\ cpc' = "details"
  /\ UNCHANGED <<curve, withdrawalPct, inflationPct, stats, monthlyReturns, wi,
                 withdrawalValue, lastWithdrawalDate, yearNumber, withdrawalResult,
                 details>>
  /\ UNCHANGED <<simVars, trendVars>>
  /\ UNCHANGED fnVars

WithdrawalDetails ==
  /\ cpc = "details"
  /\ details' = getWithdrawalDetails(curve, withdrawalPct, inflationPct)
  /\ cpc' = "done"
  /\ UNCHANGED <<curve, withdrawalPct, inflationPct, stats, monthlyReturns, wi,
                 withdrawalValue, lastWithdrawalDate, yearNumber, withdrawalResult>>
  /\ UNCHANGED <<simVars, trendVars>>
  /\ UNCHANGED fnVars

CurveInit ==
  /\ startingCapital \in Capitals
  /\ \E n \in 0..MaxPoints : curve \in Curves(startingCapital, n)
  /\ withdrawalPct \in WithdrawalRates
  /\ inflationPct \in InflationRates
  /\ CurveIdle("stats")
  /\ portfolio = <<>>
  /\ assetData = <<>>
  /\ selectedDateRange = [start |-> NoDate, end |-> NoDate]
  /\ rebalanceFreq = "yearly"
  /\ SimIdle("idle")
  /\ riskFreeRate = Zero
  /\ commission = Zero
  /\ TrendIdle("idle")
  /\ FnIdle

CurveNext ==
  \/ CurveStatistics
  \/ MonthlyReturns
  \/ WithdrawalCall
  \/ WithdrawalStep
  \/ WithdrawalReturn
  \/ WithdrawalDetails

CurveSpec == CurveInit /\ [][CurveNext]_vars

----------------------------------------------------------------------------
(* calculateSuccessRate on its own *)

\* The three machines above, none of them started
NothingStarted ==
  /\ portfolio = <<>>
  /\ assetData = <<>>
  /\ selectedDateRange = [start |-> NoDate, end |-> NoDate]
  /\ startingCapital \in Capitals
  /\ rebalanceFreq = "yearly"
  /\ SimIdle("idle")
  /\ riskFreeRate = Zero
  /\ commission = Zero
  /\ TrendIdle("idle")
  /\ curve = <<>>
  /\ withdrawalPct = Zero
  /\ inflationPct = Zero
  /\ CurveIdle("idle")

MaxLog == 5

\* The prices of the events
LogPrices == {1, 2, 3}

Flipped(signal) == IF signal = "BUY" THEN "SELL" ELSE "BUY"

\* The logs calculateTrendFollowingAnalysis can pass: one event a month at most,
\* the states alternating from the first event on
SignalLogs(n) ==
  {[e \in 1..n |->
      [date |-> AddMonths(FirstDate, e - 1),
       newSignal |-> IF e % 2 = 1 THEN first ELSE Flipped(first),
       price |-> Rat(prices[e]),
       value |-> Rat(1)]] : first \in {"BUY", "SELL"}, prices \in [1..n -> LogPrices]}

\* const successRate = calculateSuccessRate(signalChanges)
SuccessRate ==
  /\ fpc = "calculateSuccessRate"
  /\ rateResult' = calculateSuccessRate(rateLog)
  /\ fpc' = "done"
  /\ UNCHANGED <<rateLog, given, called, uiVars>>
  /\ UNCHANGED <<simVars, trendVars, curveVars>>

RateInit ==
  /\ NothingStarted
  /\ fpc = "calculateSuccessRate"
  /\ \E n \in 0..MaxLog : rateLog \in SignalLogs(n)
  /\ rateResult = NoRate
  /\ given = <<>>
  /\ called = {}
  /\ UiIdle

RateNext == SuccessRate

RateSpec == RateInit /\ [][RateNext]_vars

----------------------------------------------------------------------------
(* The four functions that read a curve, called in any order *)

\* The locals of calculateWithdrawalReturns after the points of index 1..n (0-based)
RECURSIVE OverlayUpTo(_, _, _, _)
OverlayUpTo(points, pct, inflation, n) ==
  IF n = 0
  THEN [result |-> <<[date |-> points[1].date, value |-> points[1].value]>>,
        withdrawalValue |-> points[1].value,
        lastWithdrawalDate |-> points[1].date,
        yearNumber |-> 0]
  ELSE LET prev == OverlayUpTo(points, pct, inflation, n - 1)
           grown == Mul(prev.withdrawalValue, dailyRatio(points, n))
           currentDate == points[n + 1].date
           due == WithdrawalDue(currentDate, prev.lastWithdrawalDate)
           value == IF due
                    THEN AfterWithdrawal(grown, effectiveRate(pct, inflation, prev.yearNumber))
                    ELSE grown
       IN  [result |-> Append(prev.result, [date |-> currentDate, value |-> value]),
            withdrawalValue |-> value,
            lastWithdrawalDate |-> IF due THEN currentDate ELSE prev.lastWithdrawalDate,
            yearNumber |-> IF due THEN prev.yearNumber + 1 ELSE prev.yearNumber]

calculateWithdrawalReturns(points, pct, inflation) ==
  IF Len(points) < 2 THEN <<>>
  ELSE OverlayUpTo(points, pct, inflation, Len(points) - 1).result

returnsAfter_Shifted(points) == IF points = <<>> THEN points ELSE Tail(points)

\* The array passed as `returns`, after the call: none of the four functions
\* assigns to it or to a point of it
returnsAfter(points) == points

MaxGiven == 3

CurveReaders ==
  {"calculateStatistics", "calculateMonthlyReturns", "calculateWithdrawalReturns",
   "getWithdrawalDetails"}

ReadCurve(fn) ==
  /\ fpc = "readers"
  /\ fn \notin called
  /\ called' = called \cup {fn}
  /\ curve' = returnsAfter(curve)
  /\ UNCHANGED <<fpc, rateLog, rateResult, given, uiVars>>
  /\ UNCHANGED <<withdrawalPct, inflationPct, cpc, wi, withdrawalValue,
                 lastWithdrawalDate, yearNumber>>
  /\ UNCHANGED <<simVars, trendVars>>

StatisticsOfCurve ==
  /\ ReadCurve("calculateStatistics")
  /\ stats' = calculateStatistics([null |-> FALSE, returns |-> curve])
  /\ UNCHANGED <<monthlyReturns, withdrawalResult, details>>

MonthlyReturnsOfCurve ==
  /\ ReadCurve("calculateMonthlyReturns")
  /\ monthlyReturns' = calculateMonthlyReturns(curve)
  /\ UNCHANGED <<stats, withdrawalResult, details>>

WithdrawalReturnsOfCurve ==
  /\ ReadCurve("calculateWithdrawalReturns")
  /\ withdrawalResult' = calculateWithdrawalReturns(curve, withdrawalPct, inflationPct)
  /\ UNCHANGED <<stats, monthlyReturns, details>>

WithdrawalDetailsOfCurve ==
  /\ ReadCurve("getWithdrawalDetails")
  /\ details' = getWithdrawalDetails(curve, withdrawalPct, inflationPct)
  /\ UNCHANGED <<stats, monthlyReturns, withdrawalResult>>

ReadersInit ==
  /\ startingCapital \in Capitals
  /\ \E n \in 0..MaxGiven : curve \in Curves(startingCapital, n)
  /\ withdrawalPct \in WithdrawalRates
  /\ inflationPct \in InflationRates
  /\ CurveIdle("idle")
  /\ portfolio = <<>>
  /\ assetData = <<>>
  /\ selectedDateRange = [start |-> NoDate, end |-> NoDate]
  /\ rebalanceFreq = "yearly"
  /\ SimIdle("idle")
  /\ riskFreeRate = Zero
  /\ commission = Zero
  /\ TrendIdle("idle")
  /\ fpc = "readers"
  /\ rateLog = <<>>
  /\ rateResult = NoRate
  /\ given = curve
  /\ called = {}
  /\ UiIdle

ReadersNext ==
  \/ StatisticsOfCurve
  \/ MonthlyReturnsOfCurve
  \/ WithdrawalReturnsOfCurve
  \/ WithdrawalDetailsOfCurve

ReadersSpec == ReadersInit /\ [][ReadersNext]_vars

----------------------------------------------------------------------------
(* The portfolio editor: addAssetToPortfolio, updateAsset, removeAsset *)

MaxAssets == 3

\* The weights typed into the weight field: parseFloat(e.target.value) || 0
EnteredWeights == {Zero, Frac(25, 2), Rat(60), Rat(70)}

\* The options of the asset and of the currency drop-downs
AssetOptions == {"SPY", "BND"}
FxOptions == {NoFx, "USDPLN"}

\* Math.round
MathRound(x) == (2 * x[1] + x[2]) \div (2 * x[2])

\* generatePortfolioName
generatePortfolioName(assets) ==
  LET validAssets == SelectSeq(assets, LAMBDA a : a.asset # "" /\ Gt(a.weight, Zero))
  IN  IF Len(validAssets) = 0 THEN NameText("Portfolio")
      ELSE [text |-> "",
            parts |-> [k \in 1..Len(validAssets) |->
                         <<validAssets[k].asset, MathRound(validAssets[k].weight)>>]]

\* assets.slice(1).reduce((sum, a) => sum + (a.weight || 0), 0), up to index n
RECURSIVE otherAssetsWeight(_, _)
otherAssetsWeight(assets, n) ==
  IF n <= 1 THEN Zero
  ELSE Add(otherAssetsWeight(assets, n - 1),
           IF Truthy(assets[n].weight) THEN assets[n].weight ELSE Zero)

autoAdjustFirstAsset_Keep(assets) == assets

autoAdjustFirstAsset(assets) ==
  IF Len(assets) < 2 THEN assets
  ELSE LET firstAssetWeight ==
             MathMax(Zero, Sub(Rat(100), otherAssetsWeight(assets, Len(assets))))
       IN  [assets EXCEPT ![1] = [@ EXCEPT !.weight = firstAssetWeight]]

\* portfolios.map(p => p.id === portfolioId ? change(p) : p), the change giving
\* the new assets
WithAssets(list, portfolioId, newAssets(_)) ==
  [k \in 1..Len(list) |->
     IF list[k].id = portfolioId
     THEN LET assets == newAssets(list[k])
          IN  [list[k] EXCEPT
                 !.assets = assets,
                 !.name = IF list[k].nameManuallyEdited THEN list[k].name
                          ELSE generatePortfolioName(assets)]
     ELSE list[k]]

\* The portfolios after addAssetToPortfolio(portfolioId); availableAssetsFiltered[0]
\* is the first option
addAssetToPortfolioResult(list, portfolioId) ==
  WithAssets(list, portfolioId,
             LAMBDA p : Append(p.assets,
                               [asset |-> "SPY",
                                weight |-> IF Len(p.assets) = 0 THEN Rat(100) ELSE Zero,
                                fx |-> NoFx]))

\* The portfolios after updateAsset(portfolioId, assetIndex, field, value),
\* assetIndex 0-based
updateAssetResult(list, portfolioId, assetIndex, field, value) ==
  WithAssets(list, portfolioId,
             LAMBDA p :
               LET newAssets ==
                     [p.assets EXCEPT ![assetIndex + 1] =
                        CASE field = "asset" -> [@ EXCEPT !.asset = value]
                          [] field = "weight" -> [@ EXCEPT !.weight = value]
                          [] field = "fx" -> [@ EXCEPT !.fx = value]]
               IN  IF field = "weight" /\ assetIndex > 0
                   THEN autoAdjustFirstAsset(newAssets)
                   ELSE newAssets)

\* The portfolios after removeAsset(portfolioId, assetIndex), assetIndex 0-based
removeAssetResult(list, portfolioId, assetIndex) ==
  WithAssets(list, portfolioId,
             LAMBDA p :
               LET newAssets ==
                     [k \in 1..(Len(p.assets) - 1) |->
                        IF k <= assetIndex THEN p.assets[k] ELSE p.assets[k + 1]]
               IN  IF assetIndex > 0 /\ Len(newAssets) > 0
                   THEN autoAdjustFirstAsset(newAssets)
                   ELSE newAssets)

\* The rows of the asset list of a portfolio, 0-based
AssetIndices(p) == 0..(Len(p.assets) - 1)

EditorUnchanged ==
  /\ UNCHANGED <<fpc, rateLog, rateResult, given, called, backtestResults,
                 assetDataLoaded, rankVars, sheetVars>>
  /\ UNCHANGED <<simVars, trendVars, curveVars>>

addAssetToPortfolio ==
  /\ fpc = "editor"
  /\ \E k \in DOMAIN portfolios :
       /\ Len(portfolios[k].assets) < MaxAssets
       /\ portfolios' = addAssetToPortfolioResult(portfolios, portfolios[k].id)
  /\ EditorUnchanged

updateAsset ==
  /\ fpc = "editor"
  /\ \E k \in DOMAIN portfolios : \E assetIndex \in AssetIndices(portfolios[k]) :
       \/ \E value \in AssetOptions :
            portfolios' =
              updateAssetResult(portfolios, portfolios[k].id, assetIndex, "asset", value)
       \/ \E value \in FxOptions :
            portfolios' =
              updateAssetResult(portfolios, portfolios[k].id, assetIndex, "fx", value)
       \/ \E value \in EnteredWeights :
            portfolios' =
              updateAssetResult(portfolios, portfolios[k].id, assetIndex, "weight", value)
  /\ EditorUnchanged

removeAsset ==
  /\ fpc = "editor"
  /\ \E k \in DOMAIN portfolios : \E assetIndex \in AssetIndices(portfolios[k]) :
       portfolios' = removeAssetResult(portfolios, portfolios[k].id, assetIndex)
  /\ EditorUnchanged

EditorInit ==
  /\ NothingStarted
  /\ fpc = "editor"
  /\ rateLog = <<>>
  /\ rateResult = NoRate
  /\ given = <<>>
  /\ called = {}
  /\ UiIdle

EditorNext == addAssetToPortfolio \/ updateAsset \/ removeAsset

EditorSpec == EditorInit /\ [][EditorNext]_vars

----------------------------------------------------------------------------
(* runBacktest *)

\* The locals of calculatePortfolioReturns after the first n rows of the slice
RECURSIVE ReturnsUpTo(_, _, _)
ReturnsUpTo(assets, filtered, n) ==
  IF n = 0
  THEN [assetShares |-> InitialShares(assets, filtered[1], Rat(startingCapital), Len(assets)),
        runningMax |-> Rat(startingCapital),
        lastRebalanceDate |-> filtered[1].date,
        returns |-> <<>>]
  ELSE LET prev == ReturnsUpTo(assets, filtered, n - 1)
           row == filtered[n]
           rebalance ==
             shouldRebalance(n - 1, rebalanceFreq, row.date, prev.lastRebalanceDate)
           portfolioValue == PortfolioValue(assets, row, prev.assetShares, Len(assets))
           rebalanced == rebalance /\ Gt(portfolioValue, Zero)
           newMax == NewRunningMax(portfolioValue, prev.runningMax)
       IN  [assetShares |->
              IF rebalanced
              THEN Rebalance(assets, row, prev.assetShares, portfolioValue, Len(assets))
              ELSE prev.assetShares,
            runningMax |-> newMax,
            lastRebalanceDate |-> IF rebalanced THEN row.date ELSE prev.lastRebalanceDate,
            returns |-> Append(prev.returns,
                               [date |-> row.date,
                                value |-> portfolioValue,
                                drawdown |-> Drawdown(portfolioValue, newMax)])]

\* calculatePortfolioReturns as one call
calculatePortfolioReturns(assets, data) ==
  LET filtered == Filter(data, selectedDateRange)
  IN  IF \/ Len(assets) = 0
         \/ Len(data) = 0
         \/ ~WeightsValid(assets)
         \/ Len(filtered) < 2
      THEN NullResult
      ELSE [null |-> FALSE, returns |-> ReturnsUpTo(assets, filtered, Len(filtered)).returns]

MaxPortfolios == 2
MaxBacktestRows == 2

\* const colors = [...]
Colors == <<"#3b82f6", "#10b981", "#f59e0b", "#ef4444", "#8b5cf6", "#ec4899">>

\* The asset lists of the configured portfolios: one asset, two assets with an FX
\* leg, weights over 100 by more than the tolerance
ConfiguredAssets ==
  { <<Leg("SPY", Rat(100), NoFx)>>,
    <<Leg("SPY", Rat(60), NoFx), Leg("BND", Rat(40), "USDPLN")>>,
    <<Leg("SPY", Rat(60), NoFx), Leg("BND", Frac(40012, 1000), NoFx)>> }

\* The portfolio lists of n portfolios the editor can leave
PortfolioLists(n) ==
  {[k \in 1..n |->
      [id |-> k, name |-> generatePortfolioName(choice[k]), assets |-> choice[k],
       color |-> Colors[((k - 1) % 6) + 1], nameManuallyEdited |-> FALSE]] :
     choice \in [1..n -> ConfiguredAssets]}

\* The rows of the sheets loaded: both assets priced, the first one up, none priced
BacktestKinds ==
  { ("SPY" :> 1) @@ ("BND" :> 1) @@ ("USDPLN" :> 4),
    ("SPY" :> 2) @@ ("BND" :> 1) @@ ("USDPLN" :> 4),
    ("USDPLN" :> 4) }

\* The sheets of n monthly rows
BacktestTables(n) ==
  IF n = 0 THEN {<<>>}
  ELSE {Table(first, rest, n - 1) :
          first \in BacktestKinds, rest \in [1..(n - 1) -> {1} \X BacktestKinds]}

Kept_All(r) == TRUE

\* .filter(r => r.returns !== null)
Kept(r) == ~r.returns.null

\* portfolios.map(...).filter(...)
BacktestOf(list, data) ==
  SelectSeq([k \in 1..Len(list) |->
               LET r == calculatePortfolioReturns(list[k].assets, data)
               IN  [portfolio |-> list[k],
                    returns |-> r,
                    stats |-> calculateStatistics(r)]],
            Kept)

\* What setBacktestResults holds after runBacktest, from the state given
runBacktestResult(list, loaded, data, stored) ==
  IF ~loaded THEN stored
  ELSE LET results == BacktestOf(list, data)
       IN  IF Len(results) = 0 THEN stored ELSE results

BacktestUnchanged ==
  /\ UNCHANGED <<fpc, rateLog, rateResult, given, called, assetDataLoaded, rankVars,
                 sheetVars>>
  /\ UNCHANGED <<simVars, trendVars, curveVars>>

runBacktest ==
  /\ fpc = "backtest"
  /\ backtestResults' =
       runBacktestResult(portfolios, assetDataLoaded, assetData, backtestResults)
  /\ UNCHANGED portfolios
  /\ BacktestUnchanged

\* The editor between two runs: setPortfolios with another list
setPortfolios ==
  /\ fpc = "backtest"
  /\ \E n \in 0..MaxPortfolios : portfolios' \in PortfolioLists(n)
  /\ UNCHANGED backtestResults
  /\ BacktestUnchanged

BacktestInit ==
  /\ \E n \in 0..MaxPortfolios : portfolios \in PortfolioLists(n)
  /\ backtestResults = Null
  /\ \/ assetDataLoaded = FALSE /\ assetData = <<>>
     \/ assetDataLoaded = TRUE /\ \E n \in 0..MaxBacktestRows : assetData \in BacktestTables(n)
  /\ selectedDateRange =
       IF assetData = <<>> THEN [start |-> NoDate, end |-> NoDate]
       ELSE [start |-> assetData[1].date, end |-> assetData[Len(assetData)].date]
  /\ portfolio = <<>>
  /\ startingCapital \in Capitals
  /\ rebalanceFreq = "monthly"
  /\ SimIdle("idle")
  /\ riskFreeRate = Zero
  /\ commission = Zero
  /\ TrendIdle("idle")
  /\ curve = <<>>
  /\ withdrawalPct = Zero
  /\ inflationPct = Zero
  /\ CurveIdle("idle")
  /\ fpc = "backtest"
  /\ rateLog = <<>>
  /\ rateResult = NoRate
  /\ given = <<>>
  /\ called = {}
  /\ assetLookup = <<>>
  /\ rankRequest = [mode |-> "year", n |-> 0]
  /\ ranked = <<>>
  /\ csvText = <<>>
  /\ parsed = [error |-> "", data |-> <<>>, assets |-> <<>>]

BacktestNext == runBacktest \/ setPortfolios

BacktestSpec == BacktestInit /\ [][BacktestNext]_vars

----------------------------------------------------------------------------
(* The rankings: getSortedAssetsByReturn and getSortedAssetsByPeriodReturn *)

MaxLookup == 2
MaxRankRows == 3

\* The rows of the lookup sheet: a foreign asset with its FX ticker, a local
\* asset, the FX ticker listed as an asset
LookupRows ==
  { [ticker |-> "SPY", name |-> "S&P 500", currency |-> "USD", fx |-> "USDPLN"],
    [ticker |-> "BND", name |-> "Bonds", currency |-> "PLN", fx |-> NoFx],
    [ticker |-> "USDPLN", name |-> "Dollar", currency |-> "PLN", fx |-> NoFx] }

\* The lookup tables of n rows, each ticker listed once
Lookups(n) ==
  {l \in [1..n -> LookupRows] : \A j, k \in 1..n : l[j].ticker = l[k].ticker => j = k}

\* The rows of the sheets ranked
RankKinds ==
  { ("SPY" :> 1) @@ ("BND" :> 2) @@ ("USDPLN" :> 4),
    ("SPY" :> 2) @@ ("BND" :> 1) @@ ("USDPLN" :> 5),
    ("SPY" :> 3) @@ ("BND" :> 1) }

\* The sheets of n rows, one month or one year apart
RankTables(n) ==
  IF n = 0 THEN {<<>>}
  ELSE {Table(first, rest, n - 1) :
          first \in RankKinds, rest \in [1..(n - 1) -> {1, 12} \X RankKinds]}

\* The rankings asked for
RankRequests ==
  {[mode |-> "year", n |-> y] : y \in {2021, 2022}}
    \cup {[mode |-> "period", n |-> y] : y \in {1, 2}}

\* price && price > 0 of Number(row[ticker])
HasValidPrice(row, ticker) == ValidPrice(Cell(row, ticker))

\* getLastPriceInYear: the index of the last row of the year with a valid price of
\* the ticker, 0 for null
getLastPriceInYear(data, ticker, year) ==
  LET yearData == {k \in DOMAIN data :
                     getFullYear(data[k].date) = year /\ HasValidPrice(data[k], ticker)}
  IN  IF yearData = {} THEN 0 ELSE CHOOSE k \in yearData : \A j \in yearData : j <= k

NoReturn ==
  [null |-> TRUE, return |-> Zero, startDate |-> NoDate, startPrice |-> Zero,
   endDate |-> NoDate, endPrice |-> Zero]

\* ((endPrice / startPrice) - 1) * 100 between two rows of the sheet
ReturnBetween(data, ticker, start, end) ==
  LET startPrice == Cell(data[start], ticker)
      endPrice == Cell(data[end], ticker)
  IN  [null |-> FALSE,
       return |-> Mul(Sub(Div(endPrice, startPrice), Rat(1)), Rat(100)),
       startDate |-> data[start].date,
       startPrice |-> startPrice,
       endDate |-> data[end].date,
       endPrice |-> endPrice]

\* const tickers = assetLookup.map(l => l.ticker): annual returns are computed
\* for the tickers of the lookup table only
Listed(lookup, ticker) == \E k \in DOMAIN lookup : lookup[k].ticker = ticker

\* calculateAssetsAnnualReturns()[ticker]?.[year]
annualReturnOf(lookup, data, ticker, year) ==
  IF Len(data) = 0 \/ Len(lookup) = 0 \/ ~Listed(lookup, ticker) THEN NoReturn
  ELSE LET end == getLastPriceInYear(data, ticker, year)
           prior == getLastPriceInYear(data, ticker, year - 1)
       IN  IF end = 0 \/ prior = 0 THEN NoReturn
           ELSE ReturnBetween(data, ticker, prior, end)

\* getPeriodReturn
getPeriodReturn(data, ticker, years) ==
  LET valid == {k \in DOMAIN data : HasValidPrice(data[k], ticker)}
  IN  IF valid = {} THEN NoReturn
      ELSE LET endRow == CHOOSE k \in valid : \A j \in valid : j <= k
               endDate == data[endRow].date
               target == <<endDate[1] - years, endDate[2], endDate[3]>>
               from == {k \in valid : DateLE(target, data[k].date)}
           IN  IF from = {} THEN NoReturn
               ELSE ReturnBetween(data, ticker,
                                  CHOOSE k \in from : \A j \in from : k <= j, endRow)

\* ((1 + assetReturn / 100) * (1 + fxReturn / 100) - 1) * 100
ConvertedReturn(assetReturn, fxReturn) ==
  Mul(Sub(Mul(Add(Rat(1), Div(assetReturn, Rat(100))),
              Add(Rat(1), Div(fxReturn, Rat(100)))),
          Rat(1)),
      Rat(100))

\* One entry of a ranking, from the return of the asset and that of its FX ticker
RankEntry(asset, own, fxData) ==
  LET converts == asset.fx # NoFx /\ ~fxData.null
  IN  [ticker |-> asset.ticker,
       name |-> asset.name,
       return |-> own.return,
       currency |-> asset.currency,
       fxTicker |-> asset.fx,
       fxReturn |-> IF converts THEN fxData.return ELSE Null,
       returnInPLN |-> IF converts THEN ConvertedReturn(own.return, fxData.return)
                       ELSE own.return]

\* assetsWithReturns.sort((a, b) => b.return - a.return): stable, highest first
RECURSIVE SortByReturn(_)
SortByReturn(entries) ==
  IF Len(entries) = 0 THEN <<>>
  ELSE LET n == Len(entries)
           sorted == SortByReturn(SubSeq(entries, 1, n - 1))
           before == {k \in DOMAIN sorted : Ge(sorted[k].return, entries[n].return)}
           at == Cardinality(before)
       IN  SubSeq(sorted, 1, at) \o <<entries[n]>> \o SubSeq(sorted, at + 1, Len(sorted))

\* The entries pushed for the assets of the lookup table that have a return
RECURSIVE EntriesUpTo(_, _, _, _)
EntriesUpTo(lookup, own(_), fxOf(_), n) ==
  IF n = 0 THEN <<>>
  ELSE LET prev == EntriesUpTo(lookup, own, fxOf, n - 1)
           asset == lookup[n]
       IN  IF own(asset.ticker).null THEN prev
           ELSE Append(prev, RankEntry(asset, own(asset.ticker),
                                       IF asset.fx = NoFx THEN NoReturn ELSE fxOf(asset.fx)))

\* getSortedAssetsByReturn(year, calculateAssetsAnnualReturns())
getSortedAssetsByReturn(lookup, data, year) ==
  SortByReturn(EntriesUpTo(lookup,
                           LAMBDA t : annualReturnOf(lookup, data, t, year),
                           LAMBDA t : annualReturnOf(lookup, data, t, year),
                           Len(lookup)))

\* getSortedAssetsByPeriodReturn(years); the start and end fields of the entries
\* are left out
getSortedAssetsByPeriodReturn(lookup, data, years) ==
  SortByReturn(EntriesUpTo(lookup,
                           LAMBDA t : getPeriodReturn(data, t, years),
                           LAMBDA t : getPeriodReturn(data, t, years),
                           Len(lookup)))

\* The "Best To Worst" view: one of the two rankings
Rank ==
  /\ fpc = "rank"
  /\ ranked' =
       IF rankRequest.mode = "year"
       THEN getSortedAssetsByReturn(assetLookup, assetData, rankRequest.n)
       ELSE getSortedAssetsByPeriodReturn(assetLookup, assetData, rankRequest.n)
  /\ fpc' = "done"
  /\ UNCHANGED <<rateLog, rateResult, given, called, portfolios, backtestResults,
                 assetDataLoaded, assetLookup, rankRequest, sheetVars>>
  /\ UNCHANGED <<simVars, trendVars, curveVars>>

RankInit ==
  /\ \E n \in 0..MaxLookup : assetLookup \in Lookups(n)
  /\ \E n \in 0..MaxRankRows : assetData \in RankTables(n)
  /\ rankRequest \in RankRequests
  /\ ranked = <<>>
  /\ selectedDateRange = [start |-> NoDate, end |-> NoDate]
  /\ portfolio = <<>>
  /\ startingCapital \in Capitals
  /\ rebalanceFreq = "yearly"
  /\ SimIdle("idle")
  /\ riskFreeRate = Zero
  /\ commission = Zero
  /\ TrendIdle("idle")
  /\ curve = <<>>
  /\ withdrawalPct = Zero
  /\ inflationPct = Zero
  /\ CurveIdle("idle")
  /\ fpc = "rank"
  /\ rateLog = <<>>
  /\ rateResult = NoRate
  /\ given = <<>>
  /\ called = {}
  /\ portfolios = DefaultPortfolios
  /\ backtestResults = Null
  /\ assetDataLoaded = TRUE
  /\ csvText = <<>>
  /\ parsed = [error |-> "", data |-> <<>>, assets |-> <<>>]

RankNext == Rank

RankSpec == RankInit /\ [][RankNext]_vars

----------------------------------------------------------------------------
(* parseSheetData: from the lines of a sheet to a price table.  A line is the
   list of cells parseCSVLine returns for it; splitting a line at the
   delimiter and un-quoting are not modelled *)

MaxLines == 2

\* The header lines tried: one asset, two assets, no asset column
Headers == {<<"date", "SPY">>, <<"date", "SPY", "BND">>, <<"date", " ">>}

\* The date cells and the value cells tried
DateCells == {"2020-01-01", "2020-02-01", ""}
ValueCells == {"2", "", "-1", "abc", "1,234"}
SecondValueCells == {"3", ""}

\* The data lines tried: blank, date only, date and one value, date and two
\* values
DataLines ==
  {<<" ">>}
    \cup {<<d>> : d \in DateCells}
    \cup {<<d, v>> : d \in DateCells, v \in ValueCells}
    \cup {<<d, v, w>> : d \in DateCells, v \in {"2", "", "-1"}, w \in SecondValueCells}

\* The sheets tried: a header and n data lines
Sheets(n) == {<<h>> \o body : h \in Headers, body \in [1..n -> DataLines]}

\* String.prototype.trim of a cell
CellTrim(cell) == IF cell = " " THEN "" ELSE cell

\* line.trim() is empty
BlankLine(line) == Len(line) = 1 /\ CellTrim(line[1]) = ""

\* csvText.trim().split('\n'): blank lines at both ends go, a blank text is one
\* empty line
RECURSIVE TrimSplit(_)
TrimSplit(text) ==
  IF Len(text) = 0 THEN <<<<"">>>>
  ELSE IF BlankLine(text[1]) THEN TrimSplit(Tail(text))
  ELSE IF BlankLine(text[Len(text)]) THEN TrimSplit(SubSeq(text, 1, Len(text) - 1))
  ELSE text

\* rawValue.replace(/,/g, '')
RemoveCommas(raw) == IF raw = "1,234" THEN "1234" ELSE raw

\* parseFloat of the value cells
parseFloat(clean) ==
  CASE clean = "2" -> Rat(2)
    [] clean = "3" -> Rat(3)
    [] clean = "-1" -> Rat(0 - 1)
    [] clean = "1234" -> Rat(1234)
    [] OTHER -> NaN

\* while (values.length < numColumns) values.push('')
Pad(values, numColumns) ==
  values \o [k \in 1..(IF Len(values) < numColumns THEN numColumns - Len(values) ELSE 0) |-> ""]

\* assetColumns: the non-empty headers after the first, in order
RECURSIVE assetColumnsUpTo(_, _)
assetColumnsUpTo(headerValues, n) ==
  IF n <= 1 THEN <<>>
  ELSE LET prev == assetColumnsUpTo(headerValues, n - 1)
           header == CellTrim(headerValues[n])
       IN  IF header # "" THEN Append(prev, header) ELSE prev

\* assetColumnIndices[asset]: the last column with that header
assetColumnIndex(headerValues, asset) ==
  LET cols == {k \in 2..Len(headerValues) : CellTrim(headerValues[k]) = asset}
  IN  CHOOSE k \in cols : \A j \in cols : j <= k

\* if (!isNaN(value) && value > 0) row[asset] = value
Stored(value) == ~IsNaN(value) /\ Gt(value, Zero)

\* The value kept for an asset of a line: Null when the cell is empty or its
\* number is not kept
ValueOfCell(values, colIndex) ==
  IF colIndex > Len(values) THEN Null
  ELSE LET rawValue == CellTrim(values[colIndex])
           value == parseFloat(RemoveCommas(rawValue))
       IN  IF rawValue = "" THEN Null
           ELSE IF Stored(value) THEN value ELSE Null

\* The row built from one line, Null when the line is skipped
RowOfLine(line, headerValues) ==
  IF BlankLine(line) THEN Null
  ELSE LET values == Pad(line, Len(headerValues))
           assets == assetColumnsUpTo(headerValues, Len(headerValues))
           kept == {assets[k] : k \in {j \in DOMAIN assets :
                      ValueOfCell(values, assetColumnIndex(headerValues, assets[j])) # Null}}
       IN  IF Len(values) < 2 \/ CellTrim(values[1]) = "" \/ kept = {} THEN Null
           ELSE [date |-> CellTrim(values[1]),
                 cells |-> [a \in kept |->
                              ValueOfCell(values, assetColumnIndex(headerValues, a))]]

\* data after lines 2..n
RECURSIVE ParsedUpTo(_, _)
ParsedUpTo(lines, n) ==
  IF n <= 1 THEN <<>>
  ELSE LET prev == ParsedUpTo(lines, n - 1)
           row == RowOfLine(lines[n], lines[1])
       IN  IF row = Null THEN prev ELSE Append(prev, row)

Thrown(message) == [error |-> message, data |-> <<>>, assets |-> <<>>]

parseSheetData(text) ==
  LET lines == TrimSplit(text)
      assetColumns == assetColumnsUpTo(lines[1], Len(lines[1]))
      data == ParsedUpTo(lines, Len(lines))
  IN  IF Len(lines) < 2 THEN Thrown("Not enough data in CSV")
      ELSE IF Len(assetColumns) = 0 THEN Thrown("No asset columns found in CSV")
      ELSE IF Len(data) = 0 THEN Thrown("No valid data rows found in CSV")
      ELSE [error |-> "", data |-> data, assets |-> assetColumns]

\* fetchSheetData: return parseSheetData(csvText)
ParseSheet ==
  /\ fpc = "parseSheetData"
  /\ parsed' = parseSheetData(csvText)
  /\ fpc' = "done"
  /\ UNCHANGED <<rateLog, rateResult, given, called, portfolios, backtestResults,
                 assetDataLoaded, rankVars, csvText>>
  /\ UNCHANGED <<simVars, trendVars, curveVars>>

SheetInit ==
  /\ \E n \in 0..MaxLines : csvText \in Sheets(n)
  /\ parsed = [error |-> "", data |-> <<>>, assets |-> <<>>]
  /\ assetData = <<>>
  /\ selectedDateRange = [start |-> NoDate, end |-> NoDate]
  /\ portfolio = <<>>
  /\ startingCapital \in Capitals
  /\ rebalanceFreq = "yearly"
  /\ SimIdle("idle")
  /\ riskFreeRate = Zero
  /\ commission = Zero
  /\ TrendIdle("idle")
  /\ curve = <<>>
  /\ withdrawalPct = Zero
  /\ inflationPct = Zero
  /\ CurveIdle("idle")
  /\ fpc = "parseSheetData"
  /\ rateLog = <<>>
  /\ rateResult = NoRate
  /\ given = <<>>
  /\ called = {}
  /\ portfolios = DefaultPortfolios
  /\ backtestResults = Null
  /\ assetDataLoaded = FALSE
  /\ assetLookup = <<>>
  /\ rankRequest = [mode |-> "year", n |-> 0]
  /\ ranked = <<>>

SheetNext == ParseSheet

SheetSpec == SheetInit /\ [][SheetNext]_vars

\* The portfolio simulator and the trend-following simulator
SimTrendSpec == (SimInit \/ TrendInit) /\ [][SimNext \/ TrendNext]_vars

\* The functions that read a curve and the trend-following simulator
CurveTrendSpec == (CurveInit \/ TrendInit) /\ [][CurveNext \/ TrendNext]_vars

Init == SimInit \/ TrendInit \/ CurveInit

Next == SimNext \/ TrendNext \/ CurveNext

Spec == Init /\ [][Next]_vars

----------------------------------------------------------------------------
(* Vocabulary of the properties, stated on the inputs and the outputs *)

\* |sum of the weights - 100| > 0.01
WeightsOff(p) ==
  LET off == MathAbs(Sub(TotalWeight(p), Rat(100)))
  IN  off[1] * 100 > off[2]

\* The dates of the rows of the table that lie in [start, end], in table order
InRangeDates(data, range) ==
  LET idx == {k \in DOMAIN data : DateLE(range.start, data[k].date)
                                  /\ DateLE(data[k].date, range.end)}
      RECURSIVE Collect(_)
      Collect(k) ==
        IF k = 0 THEN <<>>
        ELSE IF k \in idx THEN Append(Collect(k - 1), data[k].date)
        ELSE Collect(k - 1)
  IN  Collect(Len(data))

SliceLen == Len(InRangeDates(assetData, selectedDateRange))

Returned == pc = "done" /\ ~result.null

----------------------------------------------------------------------------
(* C1: whenever the weights do not sum to 100 within the 0.01 tolerance,     *)
(* calculatePortfolioReturns pushes no point and returns null: it never      *)
(* goes on to simulate an allocation whose weights are off.                  *)
C1_InvalidWeightsRejected ==
  (pc # "call" /\ WeightsOff(portfolio))
    => (pc = "done" /\ result.null /\ returns = <<>>)

\* rejected for the weights alone: there are legs and the slice has 2 rows or more
C1_Witness ==
  /\ pc = "done" /\ result.null
  /\ Len(portfolio) > 0 /\ SliceLen >= 2
  /\ WeightsOff(portfolio)

(* C2: the function returns null (a value) when the allocation has no legs   *)
(* or the date-range slice has fewer than 2 rows, and returns a curve for    *)
(* every allocation with a leg, weights summing to 100 and a slice of 2 or   *)
(* more rows.                                                                *)
C2_NullOrCurve ==
  pc = "done" =>
    /\ (Len(portfolio) = 0 \/ SliceLen < 2) => result.null
    /\ (Len(portfolio) >= 1 /\ TotalWeight(portfolio) = Rat(100) /\ SliceLen >= 2)
         => (~result.null /\ Len(result.returns) >= 2)

\* rejected for the slice alone: a one-row slice of a longer table, valid legs
C2_Witness ==
  /\ pc = "done" /\ result.null
  /\ Len(portfolio) >= 1 /\ TotalWeight(portfolio) = Rat(100)
  /\ SliceLen = 1 /\ Len(assetData) >= 2

(* C3: the returned curve has exactly one point per table row whose date is  *)
(* in [start, end], in table order, the first in-range row included.         *)
C3_OnePointPerInRangeRow ==
  Returned =>
    /\ Len(result.returns) = SliceLen
    /\ \A k \in 1..SliceLen :
         result.returns[k].date = InRangeDates(assetData, selectedDateRange)[k]

\* a curve over a slice that leaves a row of the table out
C3_Witness ==
  /\ Returned
  /\ Len(result.returns) >= 2
  /\ Len(result.returns) < Len(assetData)
  /\ result.returns[1].date = selectedDateRange.start

----------------------------------------------------------------------------
(* Vocabulary of the per-date properties *)

\* A step that processes one row: the row is CurRow, the value it pushes ValueOfStep
RowStep == pc = "loop" /\ i' = i + 1
CurRow == filteredData[i + 1]
ValueOfStep == returns'[i + 1].value

Legs == DOMAIN portfolio

\* price x fxRate of a leg on a row as section 4.1 states it, 0 when the price is
\* missing: fxRate is the FX column when the leg has an fxTicker and the column
\* holds a positive rate that day, and 1 otherwise
SpecPrice(row, leg) ==
  LET price == IF leg.asset \in DOMAIN row.cells THEN row.cells[leg.asset] ELSE 0
      fx == IF leg.fx # NoFx /\ leg.fx \in DOMAIN row.cells /\ row.cells[leg.fx] > 0
            THEN row.cells[leg.fx] ELSE 1
  IN  price * fx

HasPrice(row, leg) == SpecPrice(row, leg) > 0

\* (amount x weight/100) / adjustedPrice
TargetShares(amount, leg, row) ==
  Div(Mul(amount, Div(leg.weight, Rat(100))), Rat(SpecPrice(row, leg)))

\* (y2 - y1) * 12 + (m2 - m1)
MonthDiff(from, to) == (to[1] - from[1]) * 12 + (to[2] - from[2])

SpecThreshold(freq) ==
  CASE freq = "monthly" -> 1 [] freq = "quarterly" -> 3 [] freq = "yearly" -> 12

\* The row is past the first and the month difference has reached the threshold
Due(row) ==
  i > 0 /\ MonthDiff(lastRebalanceDate, row.date) >= SpecThreshold(rebalanceFreq)

\* No later leg of the allocation names the ticker of leg j
LastOfTicker(j) == \A k \in Legs : k > j => portfolio[k].asset # portfolio[j].asset

\* Sum over the legs with a price on the row of shares x adjusted price
RECURSIVE SpecValue(_, _, _)
SpecValue(row, shares, n) ==
  IF n = 0 THEN Zero
  ELSE Add(SpecValue(row, shares, n - 1),
           IF HasPrice(row, portfolio[n])
           THEN Mul(shares[portfolio[n].asset], Rat(SpecPrice(row, portfolio[n])))
           ELSE Zero)

----------------------------------------------------------------------------
(* C4: at the first in-range date the share quantity of each leg is          *)
(* (startingCapital x weight/100) / (price x fxRate), fxRate being the FX    *)
(* column's value when the leg has an fxTicker with a positive rate that day *)
(* and 1 otherwise.                                                          *)
C4_InitialShares ==
  (pc = "loop" /\ i = 0) =>
    \A j \in Legs :
      HasPrice(filteredData[1], portfolio[j]) =>
        assetShares[portfolio[j].asset]
          = TargetShares(Rat(startingCapital), portfolio[j], filteredData[1])

(* C5: a leg without an adjusted price at the first in-range date has 0      *)
(* shares at every later date, also after a rebalance on a date where its    *)
(* price is valid.                                                           *)
C5_ZeroForTheRemainder ==
  (pc \in {"loop", "done"} /\ Len(filteredData) >= 1) =>
    \A j \in Legs :
      ~HasPrice(filteredData[1], portfolio[j]) => assetShares[portfolio[j].asset] = Zero

(* C5 as amended: such a leg starts with 0 shares and keeps 0 shares on      *)
(* every later date except a rebalance date (month difference at the         *)
(* threshold, portfolio value positive) on which its price is valid.         *)
C5_ZeroUntilRebalanced ==
  [][ /\ (pc = "call" /\ pc' = "loop") =>
           \A j \in Legs :
             ~HasPrice(filteredData'[1], portfolio[j])
               => assetShares'[portfolio[j].asset] = Zero
      /\ RowStep =>
           \A j \in Legs :
             ( /\ ~HasPrice(filteredData[1], portfolio[j])
               /\ assetShares[portfolio[j].asset] = Zero
               /\ ~( /\ Due(CurRow)
                     /\ Gt(ValueOfStep, Zero)
                     /\ HasPrice(CurRow, portfolio[j]) ) )
               => assetShares'[portfolio[j].asset] = Zero ]_vars

\* the leg had no price on the first date, has one now, the portfolio is worth
\* something, and the leg still holds 0 shares two rows in
C5_Witness ==
  /\ pc = "loop" /\ i >= 2
  /\ \E j \in Legs :
       /\ ~HasPrice(filteredData[1], portfolio[j])
       /\ HasPrice(filteredData[i], portfolio[j])
       /\ portfolio[j].weight # Zero
       /\ assetShares[portfolio[j].asset] = Zero
  /\ Gt(returns[i].value, Zero)

(* C6: on a date where a leg has no valid adjusted price the leg adds 0 to   *)
(* the portfolio value (the value is the sum over the priced legs) and its   *)
(* share quantity is left as it was, rebalance date or not.                  *)
C6_UnpricedLegUntouched ==
  [][ RowStep =>
        /\ ValueOfStep = SpecValue(CurRow, assetShares, Len(portfolio))
        /\ \A j \in Legs :
             ~HasPrice(CurRow, portfolio[j])
               => assetShares'[portfolio[j].asset] = assetShares[portfolio[j].asset] ]_vars

\* row i was a rebalance date on which a leg holding shares had no price
C6_Witness ==
  /\ pc = "loop" /\ i >= 2
  /\ lastRebalanceDate = filteredData[i].date
  /\ \E j \in Legs :
       /\ ~HasPrice(filteredData[i], portfolio[j])
       /\ assetShares[portfolio[j].asset] # Zero

(* C7: on every date after the first where the month difference to           *)
(* lastRebalanceDate has reached the threshold of the frequency, whatever    *)
(* the portfolio value, lastRebalanceDate becomes that date and every leg    *)
(* with a valid price gets (portfolioValue x weight/100) / adjustedPrice.    *)
C7_RebalanceWhenDue ==
  [][ (RowStep /\ Due(CurRow)) =>
        /\ lastRebalanceDate' = CurRow.date
        /\ \A j \in Legs :
             HasPrice(CurRow, portfolio[j])
               => assetShares'[portfolio[j].asset]
                    = TargetShares(ValueOfStep, portfolio[j], CurRow) ]_vars

(* C7 as amended: on such a date, if the portfolio value of the date is      *)
(* positive, lastRebalanceDate becomes that date and the share entry of      *)
(* every ticker with a valid price is set to (portfolioValue x weight/100)   *)
(* / adjustedPrice of the last leg naming the ticker; if the value is not    *)
(* positive, the shares and lastRebalanceDate stay as they were.             *)
C7_RebalanceWhenDueAndPositive ==
  [][ (RowStep /\ Due(CurRow)) =>
        IF Gt(ValueOfStep, Zero)
        THEN /\ lastRebalanceDate' = CurRow.date
             /\ \A j \in Legs :
                  (HasPrice(CurRow, portfolio[j]) /\ LastOfTicker(j))
                    => assetShares'[portfolio[j].asset]
                         = TargetShares(ValueOfStep, portfolio[j], CurRow)
        ELSE UNCHANGED <<assetShares, lastRebalanceDate>> ]_vars

\* row i was a rebalance date of a two-leg allocation that moved the shares of a leg
C7_Witness ==
  /\ pc = "loop" /\ i >= 2
  /\ Len(portfolio) = 2
  /\ lastRebalanceDate = filteredData[i].date
  /\ Gt(returns[i].value, Zero)
  /\ \E j \in Legs :
       /\ HasPrice(filteredData[i], portfolio[j])
       /\ assetShares[portfolio[j].asset]
            # TargetShares(Rat(startingCapital), portfolio[j], filteredData[1])

(* C8: shares change only on rebalance dates: at the first data point, and   *)
(* on every date where the month difference to lastRebalanceDate is below    *)
(* the threshold, the share quantities and lastRebalanceDate are unchanged.  *)
C8_NoChangeUnlessDue ==
  [][ (RowStep /\ ~Due(CurRow)) => UNCHANGED <<assetShares, lastRebalanceDate>> ]_vars

\* row i lies in a later month than the last rebalance, below the threshold
C8_Witness ==
  /\ pc = "loop" /\ i >= 2
  /\ MonthDiff(lastRebalanceDate, filteredData[i].date) >= 1
  /\ MonthDiff(lastRebalanceDate, filteredData[i].date) < SpecThreshold(rebalanceFreq)
  /\ Gt(returns[i].value, Zero)

\* The running maximum over the first k values of a curve, starting from init
RECURSIVE RunningMaxOf(_, _, _)
RunningMaxOf(values, k, init) ==
  IF k = 0 THEN init ELSE MathMax(RunningMaxOf(values, k - 1, init), values[k])

\* drawdown <= 0 at every point, and 0 where the value reaches the running maximum
DrawdownsFit(values, drawdowns, init) ==
  \A k \in 1..Len(values) :
    /\ Le(drawdowns[k], Zero)
    /\ Ge(values[k], RunningMaxOf(values, k - 1, init)) => drawdowns[k] = Zero

ValuesOf(points) == [k \in 1..Len(points) |-> points[k].value]
DrawdownsOf(points) == [k \in 1..Len(points) |-> points[k].drawdown]
BuyHoldValues(points) == [k \in 1..Len(points) |-> points[k].buyHoldValue]
TrendValues(points) == [k \in 1..Len(points) |-> points[k].trendFollowingValue]
BuyHoldDrawdowns(points) == [k \in 1..Len(points) |-> points[k].buyHoldDrawdown]
TrendDrawdowns(points) == [k \in 1..Len(points) |-> points[k].trendFollowingDrawdown]

(* C9: in every curve built by calculatePortfolioReturns (running maximum    *)
(* starting at startingCapital) and in both series of calculateTrendDrawdowns *)
(* (running maximum over the points of the curve), the drawdown of every     *)
(* point is <= 0, and it is 0 at every point whose value is a new running    *)
(* maximum.                                                                  *)
C9_DrawdownNonPositive ==
  /\ DrawdownsFit(ValuesOf(returns), DrawdownsOf(returns), Rat(startingCapital))
  /\ ~trendResult.null =>
       /\ Len(trendResult.drawdownData) = Len(trendResult.chartData)
       /\ DrawdownsFit(BuyHoldValues(trendResult.chartData),
                       BuyHoldDrawdowns(trendResult.drawdownData), Zero)
       /\ DrawdownsFit(TrendValues(trendResult.chartData),
                       TrendDrawdowns(trendResult.drawdownData), Zero)

\* a trend result whose strategy curve falls below its peak and later makes a new
\* peak above 1, at a month where buy and hold is still below its own peak
C9_Witness ==
  /\ ~trendResult.null
  /\ \E b, c \in 1..Len(trendResult.chartData) :
       /\ b < c
       /\ Lt(trendResult.drawdownData[b].trendFollowingDrawdown, Zero)
       /\ Gt(trendResult.chartData[c].trendFollowingValue, Rat(1))
       /\ trendResult.drawdownData[c].trendFollowingDrawdown = Zero
       /\ Lt(trendResult.drawdownData[c].buyHoldDrawdown, Zero)

\* a portfolio curve whose value falls below startingCapital and later exceeds it
C9_WitnessPortfolio ==
  /\ Returned
  /\ \E a, b \in 1..Len(result.returns) :
       /\ a < b
       /\ Lt(result.returns[a].drawdown, Zero)
       /\ Gt(result.returns[b].value, Rat(startingCapital))
       /\ result.returns[b].drawdown = Zero

SingleLeg ==
  /\ Len(portfolio) = 1
  /\ portfolio[1].weight = Rat(100)
  /\ portfolio[1].fx = NoFx

PriceAt(k) == Rat(SpecPrice(filteredData[k], portfolio[1]))

(* C10: for a single leg of weight 100 without fxTicker, at any frequency,   *)
(* the curve follows the price of the asset:                                 *)
(* value[k] x price[1] = value[1] x price[k] for every in-range date k       *)
(* (a missing price counting as 0).                                          *)
C10_SingleLegTracksPrice ==
  (SingleLeg /\ Returned) =>
    \A k \in 1..Len(result.returns) :
      Mul(result.returns[k].value, PriceAt(1)) = Mul(result.returns[1].value, PriceAt(k))

\* a curve of three points or more with a rebalance on its second date, after
\* which the price moved again
C10_Witness ==
  /\ SingleLeg /\ Returned
  /\ Len(result.returns) >= 3
  /\ MonthDiff(filteredData[1].date, filteredData[2].date) >= SpecThreshold(rebalanceFreq)
  /\ Gt(result.returns[2].value, Zero)
  /\ PriceAt(1) # Zero
  /\ PriceAt(2) # PriceAt(1)
  /\ PriceAt(3) # PriceAt(2) /\ PriceAt(3) # Zero

----------------------------------------------------------------------------
\* The values of the curve rise strictly from point to point
StrictlyIncreasing(points) ==
  \A k \in 1..(Len(points) - 1) : Lt(points[k].value, points[k + 1].value)

\* The string is a number all of whose printed digits are 0
PrintsZero(str) == str.kind = "number" /\ str.cents = 0

StatisticsDone == pc = "done" /\ cpc = "done" /\ ~stats.null

(* C11: for a curve of calculatePortfolioReturns whose values rise strictly  *)
(* from point to point, calculateStatistics reports maxDrawdown = 0 and      *)
(* currentDrawdown = 0.                                                      *)
C11_IncreasingCurveNoDrawdown ==
  (StatisticsDone /\ StrictlyIncreasing(result.returns)) =>
    PrintsZero(stats.maxDrawdown) /\ PrintsZero(stats.currentDrawdown)

(* C11 as amended: the same, for the strictly rising curves whose first      *)
(* value is at least startingCapital.                                        *)
C11_IncreasingFromCapitalNoDrawdown ==
  ( /\ StatisticsDone
    /\ StrictlyIncreasing(result.returns)
    /\ Ge(result.returns[1].value, Rat(startingCapital)) ) =>
    PrintsZero(stats.maxDrawdown) /\ PrintsZero(stats.currentDrawdown)

\* statistics of a rising curve of three points that starts at startingCapital
C11_Witness ==
  /\ StatisticsDone
  /\ Len(result.returns) >= 3
  /\ StrictlyIncreasing(result.returns)
  /\ result.returns[1].value = Rat(startingCapital)

----------------------------------------------------------------------------
\* The months of the date range in which the ticker has a valid price
MonthlyObservations(data, range, ticker) ==
  { <<data[k].date[1], data[k].date[2]>> :
      k \in {j \in DOMAIN data :
               /\ DateLE(range.start, data[j].date)
               /\ DateLE(data[j].date, range.end)
               /\ ticker \in DOMAIN data[j].cells
               /\ data[j].cells[ticker] > 0} }

CurveStatisticsDone == cpc \in {"monthly", "withdrawal", "loop", "details", "done"} /\ pc = "idle"

(* C12: calculateStatistics returns null for a curve of fewer than 2 points, *)
(* and calculateTrendFollowingAnalysis returns null when the ticker has      *)
(* fewer than 10 monthly observations in the date range; no field of a       *)
(* result is filled in either case.                                          *)
C12_NullWhenTooShort ==
  /\ (CurveStatisticsDone /\ Len(curve) < 2) => stats = NullStats
  /\ ( /\ tpc = "done"
       /\ Cardinality(MonthlyObservations(assetData, selectedDateRange, Ticker)) < 10 )
       => trendResult = TrendNull

\* a table of 12 rows or more in which the ticker has a price in 9 months only
C12_Witness ==
  /\ tpc = "done"
  /\ Len(assetData) >= 12
  /\ Cardinality(MonthlyObservations(assetData, selectedDateRange, Ticker)) = 9
  /\ trendResult = TrendNull

\* statistics asked of a curve of one point
C12_WitnessOnePoint == CurveStatisticsDone /\ Len(curve) = 1 /\ stats = NullStats

----------------------------------------------------------------------------
\* The rows of the table inside the date range, in table order
RowsInRange(data, range) ==
  LET RECURSIVE Upto(_)
      Upto(n) ==
        IF n = 0 THEN <<>>
        ELSE IF DateLE(range.start, data[n].date) /\ DateLE(data[n].date, range.end)
             THEN Append(Upto(n - 1), data[n])
             ELSE Upto(n - 1)
  IN  Upto(Len(data))

\* n rows in the range, each in a month of its own and with a price of the ticker
MonthlyRows(n) ==
  /\ Len(RowsInRange(assetData, selectedDateRange)) = n
  /\ Cardinality(MonthlyObservations(assetData, selectedDateRange, Ticker)) = n

\* The mean of the closes of rows first..(first + 9), as <<sum, 10>> compared by
\* cross-multiplication: close > mean
AboveMean(rows, first) ==
  LET RECURSIVE Sum(_)
      Sum(k) == IF k = 0 THEN 0 ELSE Sum(k - 1) + rows[first + k - 1].cells[Ticker]
  IN  rows[first + 9].cells[Ticker] * 10 > Sum(10)

\* The result has one point per row from the 10th on, each with the signal of
\* its close against the mean of the ten closes that end with it
PointsFromTenth(n) ==
  LET rows == RowsInRange(assetData, selectedDateRange)
  IN  /\ ~trendResult.null
      /\ Len(trendResult.chartData) = n - 9
      /\ \A k \in 1..(n - 9) :
           /\ trendResult.chartData[k].date = rows[k + 9].date
           /\ trendResult.chartData[k].price = Rat(rows[k + 9].cells[Ticker])
           /\ trendResult.chartData[k].signal
                = IF AboveMean(rows, k) THEN "BUY" ELSE "SELL"

(* C13: for a ticker with exactly 11 monthly rows in the date range, one     *)
(* valid price per month, calculateTrendFollowingAnalysis returns a result   *)
(* whose first point is the 10th monthly observation, its signal decided by  *)
(* the 10th close against the mean of closes 1..10, followed by one point    *)
(* for the 11th month.                                                       *)
C13_ElevenMonthlyRows ==
  (tpc = "done" /\ MonthlyRows(11)) => PointsFromTenth(11)

\* The same table with one more monthly row gives the three points from the 10th on
C13_TwelveMonthlyRows ==
  (tpc = "done" /\ MonthlyRows(12)) => PointsFromTenth(12)

----------------------------------------------------------------------------
AllPositive(points) == \A k \in DOMAIN points : Gt(points[k].value, Zero)

MonthlyReturnsDone == cpc \in {"withdrawal", "loop", "details", "done"} /\ pc = "idle"

\* 1 + pct/100
GrowthOf(pct) == Add(Rat(1), Div(pct, Rat(100)))

\* The product of (1 + m/100) over the non-null months 0..(n - 1) of a year
RECURSIVE Compounded(_, _)
Compounded(monthly, n) ==
  IF n = 0 THEN Rat(1)
  ELSE IF monthly[n - 1] = Null THEN Compounded(monthly, n - 1)
  ELSE Mul(Compounded(monthly, n - 1), GrowthOf(monthly[n - 1]))

\* The value of the last point in the month of the first point of the curve
FirstMonthClose(points) ==
  LET same == {k \in DOMAIN points :
                 /\ points[k].date[1] = points[1].date[1]
                 /\ points[k].date[2] = points[1].date[2]}
  IN  points[CHOOSE k \in same : \A j \in same : j <= k].value

(* C14: for every year of the result of calculateMonthlyReturns, and any     *)
(* curve with positive values, 1 + fy/100 is the product of 1 + m/100 over   *)
(* the non-null monthly returns m of the year, the first year included.      *)
C14_FullYearCompounds ==
  (MonthlyReturnsDone /\ AllPositive(curve)) =>
    \A idx \in DOMAIN monthlyReturns :
      GrowthOf(monthlyReturns[idx].fy) = Compounded(monthlyReturns[idx].monthly, 12)

(* C14 as amended: the equality holds for every year after the first; for    *)
(* the first year (1 + fy/100) x first value of the curve = product x close  *)
(* of the first month, so it holds there when the first month closes at the  *)
(* first value.                                                              *)
C14_FullYearCompoundsAfterFirstMonth ==
  (MonthlyReturnsDone /\ AllPositive(curve)) =>
    \A idx \in DOMAIN monthlyReturns :
      IF idx > 1
      THEN GrowthOf(monthlyReturns[idx].fy) = Compounded(monthlyReturns[idx].monthly, 12)
      ELSE Mul(GrowthOf(monthlyReturns[idx].fy), curve[1].value)
             = Mul(Compounded(monthlyReturns[idx].monthly, 12), FirstMonthClose(curve))

\* two points of different value in the first month, and a second year with two
\* months whose returns are neither null nor 0
C14_Witness ==
  /\ MonthlyReturnsDone /\ AllPositive(curve)
  /\ Len(monthlyReturns) = 2
  /\ FirstMonthClose(curve) # curve[1].value
  /\ \E m1, m2 \in 0..11 :
       /\ m1 < m2
       /\ monthlyReturns[2].monthly[m1] \notin {Null, Zero}
       /\ monthlyReturns[2].monthly[m2] \notin {Null, Zero}

----------------------------------------------------------------------------
WithdrawalRunning == cpc \in {"loop", "details", "done"} /\ pc = "idle" /\ Len(curve) >= 2

WithdrawalDone == cpc \in {"details", "done"} /\ pc = "idle" /\ Len(curve) >= 2

(* C15: with annual rate 0, whatever the inflation rate, the overlay of      *)
(* calculateWithdrawalReturns has the date and the value of the input curve  *)
(* at every point, for any curve of 2 points or more with positive values.   *)
C15_ZeroRateKeepsCurve ==
  (WithdrawalRunning /\ withdrawalPct = Zero /\ AllPositive(curve)) =>
    /\ \A k \in DOMAIN withdrawalResult :
         /\ withdrawalResult[k].date = curve[k].date
         /\ withdrawalResult[k].value = curve[k].value
    /\ WithdrawalDone => Len(withdrawalResult) = Len(curve)

\* an overlay at rate 0 and inflation 100 over a curve that moved, with two
\* withdrawal dates passed
C15_Witness ==
  /\ WithdrawalDone /\ withdrawalPct = Zero /\ AllPositive(curve)
  /\ inflationPct # Zero
  /\ yearNumber >= 2
  /\ \E k \in 2..Len(curve) : curve[k].value # curve[1].value

----------------------------------------------------------------------------
\* The withdrawals among the first n points of a curve by the 12-month rule:
\* how many there were, the date of the last one (the first point's date when
\* there was none), and the indices of the points at which they fell
RECURSIVE WithdrawalsUpTo(_, _)
WithdrawalsUpTo(points, n) ==
  IF n = 1 THEN [count |-> 0, last |-> points[1].date, at |-> <<>>]
  ELSE LET prev == WithdrawalsUpTo(points, n - 1)
       IN  IF MonthDiff(prev.last, points[n].date) >= 12
           THEN [count |-> prev.count + 1, last |-> points[n].date, at |-> Append(prev.at, n)]
           ELSE prev

\* rate x (1 + inflation/100)^k
CompoundedRate(rate, inflation, k) == Mul(rate, Pow(GrowthOf(inflation), k))

WithdrawalLoopStep == cpc = "loop" /\ wi' = wi + 1

(* C16: calculateWithdrawalReturns starts with the first point's date as the *)
(* reference date and year index 0; at each later point the overlay value is *)
(* scaled by value[i]/value[i-1], and exactly when the whole-month           *)
(* difference to the reference date is >= 12 it is further multiplied by     *)
(* 1 - annualRate x (1 + inflation/100)^k / 100, k being the number of       *)
(* withdrawals before it; the point's date becomes the reference date and    *)
(* the year index grows by one.                                              *)
C16_WithdrawalEveryTwelveMonths ==
  [][ /\ (cpc = "withdrawal" /\ cpc' = "loop") =>
           lastWithdrawalDate' = curve[1].date /\ yearNumber' = 0
      /\ WithdrawalLoopStep =>
           LET before == WithdrawalsUpTo(curve, wi)
               date == curve[wi + 1].date
               grown == Mul(withdrawalValue, Div(curve[wi + 1].value, curve[wi].value))
               factor == Sub(Rat(1),
                             Div(CompoundedRate(withdrawalPct, inflationPct, before.count),
                                 Rat(100)))
           IN  IF MonthDiff(before.last, date) >= 12
               THEN /\ withdrawalValue' = Mul(grown, factor)
                    /\ lastWithdrawalDate' = date
                    /\ yearNumber' = before.count + 1
               ELSE /\ withdrawalValue' = grown
                    /\ lastWithdrawalDate' = before.last
                    /\ yearNumber' = before.count ]_vars

\* two withdrawals at a rate that inflation compounds, over four points of which
\* one fell less than 12 months after the reference date
C16_Witness ==
  /\ WithdrawalDone /\ AllPositive(curve)
  /\ Len(curve) = 4
  /\ yearNumber = 2
  /\ withdrawalPct # Zero /\ inflationPct # Zero
  /\ \E k \in 2..4 :
       /\ WithdrawalsUpTo(curve, k).count = WithdrawalsUpTo(curve, k - 1).count
       /\ MonthDiff(WithdrawalsUpTo(curve, k - 1).last, curve[k].date) = 11

----------------------------------------------------------------------------
DetailsDone == cpc = "done" /\ pc = "idle" /\ Len(curve) >= 2

(* C17: getWithdrawalDetails agrees with calculateWithdrawalReturns on every *)
(* input: one record per withdrawal of the overlay; the k-th record's        *)
(* endValue is the overlay value at the k-th withdrawal date, its            *)
(* effectiveRate the rate applied there, its withdrawalAmount equals         *)
(* preWithdrawalValue - endValue, and its startingValue is the endValue of   *)
(* the record before (the first value of the curve for the first record).    *)
C17_DetailsAgreeWithOverlay ==
  DetailsDone =>
    LET events == WithdrawalsUpTo(curve, Len(curve)).at
    IN  /\ Len(details) = yearNumber
        /\ Len(details) = Len(events)
        /\ \A k \in DOMAIN details :
             /\ details[k].year = k
             /\ details[k].endValue = withdrawalResult[events[k]].value
             /\ details[k].effectiveRate
                  = CompoundedRate(withdrawalPct, inflationPct, k - 1)
             /\ details[k].withdrawalAmount
                  = Sub(details[k].preWithdrawalValue, details[k].endValue)
             /\ details[k].startingValue
                  = IF k = 1 THEN curve[1].value ELSE details[k - 1].endValue

\* two records at a rate that inflation compounds, the curve having moved
\* between the withdrawals
C17_Witness ==
  /\ DetailsDone /\ AllPositive(curve)
  /\ Len(details) = 2
  /\ withdrawalPct # Zero /\ inflationPct # Zero
  /\ details[2].preWithdrawalValue # details[2].startingValue
  /\ details[1].preWithdrawalValue # details[1].startingValue

\* details of a curve that holds a value of 0
C17_WitnessZeroValue ==
  /\ DetailsDone /\ ~AllPositive(curve)
  /\ Len(details) = 2
  /\ withdrawalPct # Zero

----------------------------------------------------------------------------
\* The monthly closes of the ticker in the date range, oldest month first: for
\* each month with a valid price, the date and the price of its last such row
Closes ==
  LET months == MonthlyObservations(assetData, selectedDateRange, Ticker)
      order == SortedSeq({ym[1] * 12 + ym[2] : ym \in months})
      lastRow(n) ==
        CHOOSE k \in DOMAIN assetData :
          /\ assetData[k].date[1] * 12 + assetData[k].date[2] = n
          /\ DateLE(selectedDateRange.start, assetData[k].date)
          /\ DateLE(assetData[k].date, selectedDateRange.end)
          /\ Ticker \in DOMAIN assetData[k].cells
          /\ \A j \in DOMAIN assetData :
               ( /\ assetData[j].date[1] * 12 + assetData[j].date[2] = n
                 /\ Ticker \in DOMAIN assetData[j].cells ) => j <= k
  IN  [idx \in DOMAIN order |->
         [date |-> assetData[lastRow(order[idx])].date,
          price |-> assetData[lastRow(order[idx])].cells[Ticker]]]

\* The sum of the ten closes that end with close number idx
RECURSIVE SumOfTen(_, _)
SumOfTen(idx, n) == IF n = 0 THEN 0 ELSE SumOfTen(idx, n - 1) + Closes[idx - 10 + n].price

\* INVESTED when the close is strictly above the mean of the ten closes
StateOf(idx) == IF Closes[idx].price * 10 > SumOfTen(idx, 10) THEN "BUY" ELSE "SELL"

TrendRunning == tpc \in {"loop", "done"} /\ Len(monthlyPrices) >= 10

\* The chart points at which the state differs from the point before, the first
\* point included
Flips == {k \in DOMAIN chartData : k = 1 \/ chartData[k].signal # chartData[k - 1].signal}

(* C18: the signal of each month is INVESTED exactly when the month's close  *)
(* is strictly greater than the trailing 10-month SMA and OUT_OF_MARKET      *)
(* otherwise, equality included; a SignalChangeEvent is recorded for the     *)
(* first month and for the months whose signal differs from the signal of    *)
(* the month before, and for no other; consecutive events alternate.         *)
C18_SignalAndEvents ==
  TrendRunning =>
    /\ \A k \in DOMAIN chartData :
         /\ chartData[k].date = Closes[k + 9].date
         /\ chartData[k].signal = StateOf(k + 9)
    /\ Len(signalChanges) = Cardinality(Flips)
    /\ \A e \in DOMAIN signalChanges :
         \E k \in Flips :
           /\ Cardinality({j \in Flips : j <= k}) = e
           /\ signalChanges[e].date = chartData[k].date
           /\ signalChanges[e].newSignal = chartData[k].signal
           /\ signalChanges[e].price = chartData[k].price
    /\ \A e \in 1..(Len(signalChanges) - 1) :
         signalChanges[e].newSignal # signalChanges[e + 1].newSignal

\* three events, one of them at a month whose close equals the SMA, and a month
\* without an event
C18_Witness ==
  /\ tpc = "done" /\ ~trendResult.null
  /\ Len(signalChanges) >= 3
  /\ Len(chartData) > Len(signalChanges)
  /\ \E k \in DOMAIN chartData :
       /\ Closes[k + 9].price * 10 = SumOfTen(k + 9, 10)
       /\ chartData[k].signal = "SELL"

(* C19: at the first SMA-eligible month both curves have value 1, one        *)
(* SignalChangeEvent of value 1 is recorded for that month and no other, and *)
(* neither a return nor a commission is applied, whatever the first signal.  *)
C19_FirstMonthStartsAtOne ==
  (TrendRunning /\ Len(chartData) >= 1) =>
    /\ chartData[1].date = Closes[10].date
    /\ chartData[1].buyHoldValue = Rat(1)
    /\ chartData[1].trendFollowingValue = Rat(1)
    /\ Len(signalChanges) >= 1
    /\ signalChanges[1].date = chartData[1].date
    /\ signalChanges[1].newSignal = chartData[1].signal
    /\ signalChanges[1].value = Rat(1)
    /\ \A e \in 2..Len(signalChanges) : signalChanges[e].date # chartData[1].date

\* a run with a commission and a risk-free rate whose 10th close differs from
\* the 9th and gives OUT_OF_MARKET
C19_Witness ==
  /\ tpc = "done" /\ ~trendResult.null
  /\ commission # Zero /\ riskFreeRate # Zero
  /\ Closes[10].price # Closes[9].price
  /\ chartData[1].signal = "SELL"
  /\ Len(chartData) >= 2

\* the same with INVESTED as the first signal
C19_WitnessInvested ==
  /\ tpc = "done" /\ ~trendResult.null
  /\ commission # Zero
  /\ Closes[10].price # Closes[9].price
  /\ chartData[1].signal = "BUY"

TrendLaterMonth == tpc = "loop" /\ ti' = ti + 1 /\ Len(chartData) >= 1

(* C20: in each month after the first eligible one the benchmark is          *)
(* multiplied by 1 + the month's return and never charged; the strategy is   *)
(* multiplied by 1 + the month's return when it held the asset and by 1 +    *)
(* the monthly risk-free rate when it did not, and then by                   *)
(* (1 - commissionRate) exactly when the month's signal differs from the     *)
(* signal of the month before, in which case one event carrying the          *)
(* benchmark value is recorded and the held state follows the new signal; so *)
(* the charges number the events minus one.                                  *)
C20_CommissionOnFlips ==
  [][ TrendLaterMonth =>
        LET k == Len(chartData) + 1
            return == Div(Rat(Closes[k + 9].price - Closes[k + 8].price),
                          Rat(Closes[k + 8].price))
            held == chartData[k - 1].signal = "BUY"
            flip == StateOf(k + 9) # chartData[k - 1].signal
            grown == IF held
                     THEN Mul(trendFollowingValue, GrowthOf(Mul(return, Rat(100))))
                     ELSE Mul(trendFollowingValue,
                              Add(Rat(1), monthlyRiskFreeRate(riskFreeRate)))
        IN  /\ buyHoldValue' = Mul(buyHoldValue, Add(Rat(1), return))
            /\ trendFollowingValue'
                 = IF flip THEN Mul(grown, Sub(Rat(1), commission)) ELSE grown
            /\ Len(signalChanges') = Len(signalChanges) + (IF flip THEN 1 ELSE 0)
            /\ flip => signalChanges'[Len(signalChanges')].value = buyHoldValue'
            /\ isInvested' = (StateOf(k + 9) = "BUY")
            /\ Len(signalChanges') = Cardinality(Flips) + (IF flip THEN 1 ELSE 0) ]_vars

\* a run with a commission that flipped twice after the first month and had a
\* month without a flip
C20_Witness ==
  /\ tpc = "done" /\ ~trendResult.null
  /\ commission # Zero
  /\ Len(signalChanges) = 3
  /\ Len(chartData) = 4

----------------------------------------------------------------------------
\* The state held coming into the month: the state of the last event of the log
HeldComingIn == signalChanges[Len(signalChanges)].newSignal

\* The simple return of close number idx over the close before it
SimpleReturn(idx) ==
  Div(Rat(Closes[idx].price - Closes[idx - 1].price), Rat(Closes[idx - 1].price))

\* The monthly factor of the strategy in a step of the loop, commission left out
StrategyFactor(idx) ==
  IF HeldComingIn = "BUY" THEN Add(Rat(1), SimpleReturn(idx))
  ELSE Add(Rat(1), monthlyRiskFreeRate(riskFreeRate))

(* C21: in each month after the first eligible one the benchmark compounds   *)
(* by the month's simple asset return, and the strategy by the same return   *)
(* when the state held coming into the month is INVESTED and by the monthly  *)
(* risk-free rate (1+riskFreeRate)^(1/12)-1 when it is OUT_OF_MARKET; the    *)
(* month's new signal does not enter the month's return.                     *)
C21_ReturnByHeldState ==
  [][ TrendLaterMonth =>
        LET idx == Len(chartData) + 10
            grown == Mul(trendFollowingValue, StrategyFactor(idx))
        IN  /\ chartData'[idx - 9].buyHoldValue
                 = Mul(chartData[idx - 10].buyHoldValue, Add(Rat(1), SimpleReturn(idx)))
            /\ chartData'[idx - 9].buyHoldValue
                 = Frac(Closes[idx].price, Closes[10].price)
            /\ chartData'[idx - 9].trendFollowingValue
                 = IF chartData'[idx - 9].signal = HeldComingIn THEN grown
                   ELSE Mul(grown, Sub(Rat(1), commission)) ]_vars

\* a run with a risk-free rate in which the strategy was out of the market over
\* a month that moved the price and turned the signal to INVESTED, and held the
\* asset over a month that moved the price and turned the signal to
\* OUT_OF_MARKET
C21_Witness ==
  /\ tpc = "done" /\ ~trendResult.null
  /\ riskFreeRate # Zero
  /\ \E k \in 2..Len(chartData) :
       /\ chartData[k - 1].signal = "SELL" /\ chartData[k].signal = "BUY"
       /\ chartData[k].price # chartData[k - 1].price
  /\ \E k \in 2..Len(chartData) :
       /\ chartData[k - 1].signal = "BUY" /\ chartData[k].signal = "SELL"
       /\ chartData[k].price # chartData[k - 1].price

----------------------------------------------------------------------------
\* Every monthly close is above the close of the month before
StrictlyRising == \A idx \in 2..Len(Closes) : Closes[idx].price > Closes[idx - 1].price

TrendDone == tpc = "done" /\ ~trendResult.null

(* C22: with commissionRate = 0, riskFreeRate = 0 and monthly closes that    *)
(* strictly rise every month, the strategy curve of the result equals the    *)
(* benchmark curve at every point and the signal log holds the initial event *)
(* only.                                                                     *)
C22_RisingSeriesTracksBenchmark ==
  (TrendDone /\ commission = Zero /\ riskFreeRate = Zero /\ StrictlyRising) =>
    /\ \A k \in DOMAIN trendResult.chartData :
         trendResult.chartData[k].trendFollowingValue
           = trendResult.chartData[k].buyHoldValue
    /\ Len(trendResult.signalChanges) = 1
    /\ trendResult.signalChanges[1].newSignal = "BUY"

\* such a run with three chart points or more, the benchmark having grown
C22_Witness ==
  /\ TrendDone /\ commission = Zero /\ riskFreeRate = Zero /\ StrictlyRising
  /\ Len(trendResult.chartData) >= 3
  /\ Gt(trendResult.chartData[3].buyHoldValue, trendResult.chartData[2].buyHoldValue)
  /\ Gt(trendResult.chartData[2].buyHoldValue, Rat(1))

----------------------------------------------------------------------------
\* The OUT_OF_MARKET events of the log that are followed later by an INVESTED event
Exits(log) ==
  {e \in DOMAIN log :
     /\ log[e].newSignal = "SELL"
     /\ \E f \in DOMAIN log : f > e /\ log[f].newSignal = "BUY"}

\* The first INVESTED event after event e
ReEntry(log, e) ==
  CHOOSE f \in DOMAIN log :
    /\ f > e /\ log[f].newSignal = "BUY"
    /\ \A g \in DOMAIN log : (g > e /\ log[g].newSignal = "BUY") => f <= g

\* The exits whose re-entry price is strictly lower than the exit price
CheaperExits(log) == {e \in Exits(log) : Lt(log[ReEntry(log, e)].price, log[e].price)}

RateDone == fpc = "done"

RoundTripsCounted ==
  IF Exits(rateLog) = {} THEN rateResult.null
  ELSE /\ ~rateResult.null
       /\ rateResult.total = Cardinality(Exits(rateLog))
       /\ rateResult.successful = Cardinality(CheaperExits(rateLog))

(* C23 as stated: calculateSuccessRate counts one round trip for each        *)
(* OUT_OF_MARKET event followed later by an INVESTED event, successful       *)
(* exactly when the re-entry price is strictly lower than the exit price,    *)
(* returns successes/total, and null when the log holds no round trip.       *)
C23_RateIsSuccessesOverTotal ==
  RateDone =>
    /\ RoundTripsCounted
    /\ ~rateResult.null => rateResult.rate = Frac(rateResult.successful, rateResult.total)

(* C23, amended: the same counts, the rate being returned as a percentage,   *)
(* 100 x successes/total.                                                    *)
C23_RateIsPercentage ==
  RateDone =>
    /\ RoundTripsCounted
    /\ ~rateResult.null =>
         rateResult.rate = Frac(100 * rateResult.successful, rateResult.total)

\* a log of two round trips, one re-entered lower and one re-entered at the exit
\* price
C23_Witness ==
  /\ RateDone
  /\ ~rateResult.null
  /\ rateResult.total = 2
  /\ rateResult.successful = 1
  /\ \E e \in Exits(rateLog) : rateLog[ReEntry(rateLog, e)].price = rateLog[e].price

\* a log that starts with INVESTED and has one further event: null
C23_WitnessNoRoundTrip ==
  /\ RateDone
  /\ Len(rateLog) = 2
  /\ rateLog[1].newSignal = "BUY"
  /\ rateResult.null

----------------------------------------------------------------------------
\* A step that rebalances on a row where every leg has a valid adjusted price
RebalanceStep ==
  /\ RowStep /\ Due(CurRow)
  /\ Gt(ValueOfStep, Zero)
  /\ \A j \in Legs : HasPrice(CurRow, portfolio[j])

\* new shares x adjusted price of leg j on the row of the step
LegValueAfter(j) ==
  Mul(assetShares'[portfolio[j].asset], Rat(SpecPrice(CurRow, portfolio[j])))

RECURSIVE SumAfter(_)
SumAfter(n) == IF n = 0 THEN Zero ELSE Add(SumAfter(n - 1), LegValueAfter(n))

(* C29: a rebalance on a date where every leg has a valid price conserves    *)
(* the portfolio value: the sum over the legs of new shares x adjusted price *)
(* equals the portfolio value computed for the date before the rebalance,    *)
(* and the value of each leg is weight/100 of it.                            *)
C29_RebalanceConservesValue ==
  [][ RebalanceStep =>
        /\ SumAfter(Len(portfolio)) = ValueOfStep
        /\ \A j \in Legs :
             LegValueAfter(j) = Mul(ValueOfStep, Div(portfolio[j].weight, Rat(100))) ]_vars

DistinctTickers ==
  \A j, k \in Legs : portfolio[j].asset = portfolio[k].asset => j = k

\* The same for allocations that name each ticker once and whose weights sum to
\* 100 exactly
C29_ConservesForDistinctTickers ==
  [][ (RebalanceStep /\ DistinctTickers /\ TotalWeight(portfolio) = Rat(100)) =>
        /\ SumAfter(Len(portfolio)) = ValueOfStep
        /\ \A j \in Legs :
             LegValueAfter(j) = Mul(ValueOfStep, Div(portfolio[j].weight, Rat(100))) ]_vars

\* The conservation alone, for every allocation whose weights sum to 100 exactly
C29_ConservesWhenWeightsSumTo100 ==
  [][ (RebalanceStep /\ TotalWeight(portfolio) = Rat(100)) =>
        SumAfter(Len(portfolio)) = ValueOfStep ]_vars

\* row i was a rebalance date of a two-leg allocation with an FX leg, every leg
\* priced, on which the shares moved
C29_WitnessTwoLegs ==
  /\ pc = "loop" /\ i >= 2
  /\ Len(portfolio) = 2 /\ DistinctTickers /\ TotalWeight(portfolio) = Rat(100)
  /\ lastRebalanceDate = filteredData[i].date
  /\ \A j \in Legs : HasPrice(filteredData[i], portfolio[j])
  /\ \E j \in Legs :
       assetShares[portfolio[j].asset]
         # TargetShares(Rat(startingCapital), portfolio[j], filteredData[1])

----------------------------------------------------------------------------
\* The product of 1 - effectiveRate_k / 100 over the first n withdrawals
RECURSIVE KeptShare(_)
KeptShare(n) ==
  IF n = 0 THEN Rat(1)
  ELSE Mul(KeptShare(n - 1),
           Sub(Rat(1), Div(CompoundedRate(withdrawalPct, inflationPct, n - 1), Rat(100))))

\* The rates are in the domain: 0 <= rate <= 100, inflation >= 0, and every
\* effective rate applied over the curve is <= 100
RatesInDomain ==
  /\ Ge(withdrawalPct, Zero) /\ Le(withdrawalPct, Rat(100))
  /\ Ge(inflationPct, Zero)
  /\ \A k \in 0..(Len(curve) - 1) :
       Le(CompoundedRate(withdrawalPct, inflationPct, k), Rat(100))

(* C30: for a curve with positive values and rates in the domain, the        *)
(* overlay value at every point is the value of the curve at the point times *)
(* the product of (1 - effectiveRate_k/100) over the withdrawals applied so  *)
(* far; so the overlay never exceeds the curve and never becomes negative.   *)
C30_OverlayIsCurveTimesKeptShare ==
  (WithdrawalRunning /\ AllPositive(curve) /\ RatesInDomain) =>
    \A k \in DOMAIN withdrawalResult :
      /\ withdrawalResult[k].value
           = Mul(curve[k].value, KeptShare(WithdrawalsUpTo(curve, k).count))
      /\ Le(withdrawalResult[k].value, curve[k].value)
      /\ Ge(withdrawalResult[k].value, Zero)

\* an overlay with a rate and an inflation over a curve that moved, three
\* withdrawals applied, the overlay below the curve at the last point
C30_Witness ==
  /\ WithdrawalDone /\ AllPositive(curve) /\ RatesInDomain
  /\ withdrawalPct # Zero /\ inflationPct # Zero
  /\ WithdrawalsUpTo(curve, Len(curve)).count = 3
  /\ curve[2].value # curve[1].value
  /\ Lt(withdrawalResult[Len(curve)].value, curve[Len(curve)].value)

----------------------------------------------------------------------------
\* The loop of calculateWithdrawalReturns, taken step by step, ends with the
\* overlay of the function taken as a whole
OverlayStepsAgree ==
  WithdrawalDone =>
    withdrawalResult = calculateWithdrawalReturns(curve, withdrawalPct, inflationPct)

Readers == fpc = "readers"

----------------------------------------------------------------------------
Editing == fpc = "editor"

\* The asset lists that a change of the weight of an asset other than the first,
\* or the removal of an asset other than the first, can give from the current
\* state, among those that keep two assets or more
AutoAdjusted ==
  {list \in
     UNION {
       {updateAssetResult(portfolios, portfolios[k].id, assetIndex, "weight", value)[k].assets :
          assetIndex \in AssetIndices(portfolios[k]) \ {0}, value \in EnteredWeights}
       \cup
       {removeAssetResult(portfolios, portfolios[k].id, assetIndex)[k].assets :
          assetIndex \in AssetIndices(portfolios[k]) \ {0}} : k \in DOMAIN portfolios} :
     Len(list) >= 2}

\* The sum of the weights of the assets after the first
OthersWeight(list) == Sub(TotalWeight(list), list[1].weight)

C28_WitnessOverfull ==
  /\ Editing
  /\ \E k \in DOMAIN portfolios :
       LET assets == portfolios[k].assets
       IN  /\ Len(assets) = 3
           /\ assets[1].weight = Zero
           /\ TotalWeight(assets) = Rat(130)

----------------------------------------------------------------------------
\* calculatePortfolioReturns taken step by step returns what it returns as one
\* call
ReturnsStepsAgree ==
  (pc = "done" /\ portfolios = DefaultPortfolios /\ fpc = "idle") =>
    result = calculatePortfolioReturns(portfolio, assetData)

Backtesting == fpc = "backtest"

\* The configured portfolios for which calculatePortfolioReturns gives a curve, in
\* the order of the list
ValidPortfolios ==
  SelectSeq(portfolios,
            LAMBDA p : ~calculatePortfolioReturns(p.assets, assetData).null)

\* What runBacktest would store from the current state
StoredAfterRun ==
  runBacktestResult(portfolios, assetDataLoaded, assetData, backtestResults)

(* C27: runBacktest skips invalid portfolios: the results it stores hold     *)
(* exactly the configured portfolios for which calculatePortfolioReturns     *)
(* produced a curve, each with its curve and non-null statistics; when no    *)
(* portfolio is valid, or no data is loaded, the results stored before are   *)
(* left as they were.                                                        *)
C27_RunBacktestSkipsInvalid ==
  Backtesting =>
    /\ IF assetDataLoaded /\ Len(ValidPortfolios) > 0
       THEN /\ Len(StoredAfterRun) = Len(ValidPortfolios)
            /\ \A k \in DOMAIN StoredAfterRun :
                 /\ StoredAfterRun[k].portfolio = ValidPortfolios[k]
                 /\ StoredAfterRun[k].returns
                      = calculatePortfolioReturns(ValidPortfolios[k].assets, assetData)
                 /\ ~StoredAfterRun[k].stats.null
       ELSE StoredAfterRun = backtestResults
    /\ \A k \in DOMAIN backtestResults :
         ~backtestResults[k].returns.null /\ ~backtestResults[k].stats.null

\* results of two portfolios are stored, and of the two portfolios configured now
\* one is valid: a run stores one result
C27_Witness ==
  /\ Backtesting
  /\ Len(backtestResults) = 2
  /\ Len(portfolios) = 2
  /\ Len(ValidPortfolios) = 1
  /\ ValidPortfolios[1] = portfolios[2]
  /\ Len(StoredAfterRun) = 1

\* results are stored and none of the portfolios configured now is valid: a run
\* leaves them
C27_WitnessNoneValid ==
  /\ Backtesting
  /\ Len(backtestResults) >= 1
  /\ Len(portfolios) >= 1
  /\ Len(ValidPortfolios) = 0
  /\ StoredAfterRun = backtestResults

----------------------------------------------------------------------------
(* C24: what the two rankings return *)

RankDone == fpc = "done" /\ rankRequest.n # 0

\* The return of a ticker over the window asked for, read from the sheet: last
\* price of the year against last price of the year before, or latest price
\* against the first price on or after N years before it
WindowReturn(ticker) ==
  IF rankRequest.mode = "year"
  THEN LET end == getLastPriceInYear(assetData, ticker, rankRequest.n)
           prior == getLastPriceInYear(assetData, ticker, rankRequest.n - 1)
       IN  IF end = 0 \/ prior = 0 THEN NoReturn
           ELSE ReturnBetween(assetData, ticker, prior, end)
  ELSE getPeriodReturn(assetData, ticker, rankRequest.n)

LookupByTicker(ticker) == CHOOSE k \in DOMAIN assetLookup : assetLookup[k].ticker = ticker

RankingContract ==
  /\ {ranked[k].ticker : k \in DOMAIN ranked}
       = {assetLookup[k].ticker :
            k \in {j \in DOMAIN assetLookup : ~WindowReturn(assetLookup[j].ticker).null}}
  /\ \A j, k \in DOMAIN ranked : ranked[j].ticker = ranked[k].ticker => j = k
  /\ \A k \in 1..(Len(ranked) - 1) : Ge(ranked[k].return, ranked[k + 1].return)
  /\ \A k \in DOMAIN ranked :
       LET asset == assetLookup[LookupByTicker(ranked[k].ticker)]
           own == WindowReturn(asset.ticker)
       IN  /\ ranked[k].return = own.return
           /\ ranked[k].returnInPLN =
                IF asset.fx # NoFx /\ ~WindowReturn(asset.fx).null
                THEN ConvertedReturn(own.return, WindowReturn(asset.fx).return)
                ELSE own.return

\* C24: both rankings return exactly the lookup assets that have a return for
\* the year or trailing window asked for, highest local return first, and the
\* converted return of an entry is (1 + r/100)(1 + fx/100) - 1 as a percentage
\* when its FX ticker has data for that window and the local return otherwise
C24_RankingContract == RankDone => RankingContract

\* The trailing-window ranking keeps the contract
C24_PeriodRankingContract ==
  (RankDone /\ rankRequest.mode = "period") => RankingContract

\* The yearly ranking keeps the contract when every FX ticker named in the
\* lookup table is itself a row of the lookup table
C24_YearRankingWithListedFx ==
  (/\ RankDone
   /\ rankRequest.mode = "year"
   /\ \A k \in DOMAIN assetLookup :
        assetLookup[k].fx # NoFx => Listed(assetLookup, assetLookup[k].fx))
    => RankingContract

\* A yearly ranking of an asset whose FX ticker has a return for the year in the
\* sheet but is no row of the lookup table
C24_WitnessUnlistedFx ==
  /\ RankDone
  /\ rankRequest.mode = "year"
  /\ \E k \in DOMAIN ranked :
       /\ ranked[k].fxTicker # NoFx
       /\ ~Listed(assetLookup, ranked[k].fxTicker)
       /\ ~WindowReturn(ranked[k].fxTicker).null

\* A ranking of two assets, one of them converted
C24_WitnessConverted ==
  /\ RankDone
  /\ Len(ranked) = 2
  /\ \E k \in DOMAIN ranked : ranked[k].fxReturn # Null /\ ranked[k].returnInPLN # ranked[k].return

----------------------------------------------------------------------------
(* C26: the table parseSheetData returns *)

\* The date a date cell of the sheets spells
IsoDate(text) ==
  CASE text = "2020-01-01" -> <<2020, 1, 1>>
    [] text = "2020-02-01" -> <<2020, 2, 1>>
    [] OTHER -> NoDate

\* a is an earlier date than b
Before(a, b) == DateLE(a, b) /\ a # b

Accepted == fpc = "done" /\ csvText # <<>> /\ parsed.error = ""

StrictlyOrderedByDate(data) ==
  \A j, k \in DOMAIN data : j < k => Before(IsoDate(data[j].date), IsoDate(data[k].date))

EveryPricePositive(data) ==
  \A k \in DOMAIN data : \A a \in DOMAIN data[k].cells :
    ~IsNaN(data[k].cells[a]) /\ Gt(data[k].cells[a], Zero)

\* C26: the table returned for any sheet parseSheetData accepts has its rows
\* strictly ordered by date, each date once, and every stored price positive
C26_ParsedTableIsPriceTable ==
  Accepted => (StrictlyOrderedByDate(parsed.data) /\ EveryPricePositive(parsed.data))

\* Every price of an accepted sheet is a positive number
C26_StoredPricesPositive == Accepted => EveryPricePositive(parsed.data)

\* The rows of an accepted sheet are its kept lines, in the order of the sheet
C26_RowsInSheetOrder ==
  Accepted =>
    \E f \in [DOMAIN parsed.data -> 2..Len(csvText)] :
      /\ \A j, k \in DOMAIN parsed.data : j < k => f[j] < f[k]
      /\ \A k \in DOMAIN parsed.data : parsed.data[k].date = CellTrim(csvText[f[k]][1])

\* An accepted sheet whose second line is dated before its first
C26_WitnessOutOfOrder ==
  /\ Accepted
  /\ Len(parsed.data) = 2
  /\ Before(IsoDate(parsed.data[2].date), IsoDate(parsed.data[1].date))

\* An accepted sheet with the same date on two lines
C26_WitnessRepeatedDate ==
  /\ Accepted
  /\ Len(parsed.data) = 2
  /\ parsed.data[1].date = parsed.data[2].date

\* An accepted sheet with a row that lost a negative value of its line
C26_WitnessDroppedValue ==
  /\ Accepted
  /\ Len(csvText) = 2
  /\ Len(csvText[2]) = 3
  /\ csvText[2][2] = "-1"
  /\ DOMAIN parsed.data[1].cells = {"BND"}

====
